---- MODULE Spec2Model ----
(***************************************************************************)
(* State-machine model of the hyperlydian game core:                       *)
(*   - StraferGruntGroup  (src/game/sprites/groups.py)                     *)
(*   - SpinnerGruntGroup  (src/game/sprites/groups.py)                     *)
(*   - Player movement, enemy-collision tracking, health and attack        *)
(*                        (src/game/sprites/player.py)                     *)
(*   - main, the loading screen and the stat tracker                       *)
(*                        (src/game/main.py, menus/loading.py, stats.py)   *)
(*   - Projectile         (src/game/sprites/projectiles.py)                *)
(* Python lists are functions over 0..n-1 so that row indices keep the     *)
(* values they have in the source.                                         *)
(***************************************************************************)
EXTENDS Integers, Sequences, FiniteSets, Bags, TLC

(***************************************************************************)
(* Program constants                                                       *)
(***************************************************************************)
MAX_GRUNTS_PER_ROW == 3
MAX_ROWS == 2
ROW_START == 150
\* ROW_SPACING = 1.25, kept exact as the fraction 5/4
ROW_SPACING_NUM == 5
ROW_SPACING_DEN == 4
SCREEN_HEIGHT == 900
INITIAL_MAX_GRUNTS == 2
DEFAULT_SPEED == 5
DEFAULT_HEALTH == 10
EASY_MODE_HEALTH == 15
MAXIMUM_LOADTIME == 30
MAX_OPENED_ADDRESS == "/max_opened"
MAX_LOADED_ADDRESS == "/max_loaded"
MAX_OPEN_STR == "Waiting for Max/MSP to open."
MAX_LOAD_STR == "Waiting for Max/MSP to finish loading."
BEYOND_LOADTIME_STR == "Taking longer to load than usual."
\* threshold = int(mask_size[0] * 0.45)
THRESHOLD_PERCENT == 45
\* math.cos(math.radians(45)) = math.sin(math.radians(45)) = 0.7071..., as a fraction
COS_45_NUM == 7071
COS_45_DEN == 10000

(***************************************************************************)
(* Bounds of the model                                                     *)
(***************************************************************************)
\* create_new_grunt calls a caller that ignores is_full may make beyond capacity
MaxOverfill == 4
\* largest capacity handed to change_max_grunts / set_max_grunts
MaxSpinnerCapacity == 4
\* largest magnitude of a negative argument of change_max_grunts / set_max_grunts
MaxNegative == 2
\* sprite identities available to the spinner group
MaxSpinnerIds == 4
\* largest value of grunts_on_screen that add is followed to
MaxSpinnerCount == 6
\* width and height of the game_screen_rect handed to Player.move
FieldWidth == 30
FieldHeight == 25
\* largest value of the player__enemies_collided counter
MaxCollided == 2
\* largest damage of one hit and largest health of one upgrade
MaxDamage == 5
MaxHeal == 2
\* largest values of the player__health_lost and player__health_gained counters
MaxHealthLost == 16
MaxHealthGained == 3
\* largest value of elapsed_load_time, past MAXIMUM_LOADTIME
MaxElapsedLoadTime == 32
\* playthroughs started and shots fired in one playthrough
MaxPlayCount == 2
MaxShotsFired == 2
\* width and height of the game_screen_rect handed to Projectile.update
ScreenRectWidth == 2
ScreenRectHeight == 2
\* largest width and height of a projectile's image
MaxProjectileSize == 2
\* largest speed handed to a projectile
MaxProjectileSpeed == 2
\* how far past the screen a projectile is still updated
MaxOutside == 1
\* how far past the valid indices a variant_number may lie
MaxVariantOvershoot == 1
\* largest limits handed to set_row_limits
MaxRowLimit == 3
MaxPerRowLimit == 3
\* largest ammo a finite-ammo weapon is created with
MaxAmmo == 2
\* largest magnitude of a negative time, in milliseconds
MaxNegativeMs == 4000000
\* attack attempts followed, and the last clock reading, in milliseconds
MaxAttempts == 3
MaxTime == 600
\* frames the studio logo stays on screen (TOTAL_SCREEN_TIME at FPS frames a second)
LogoScreenFrames == 2

\* heights of the strafer sprite image (grunt.rect.height); multiples of 4 keep
\* row * height * 1.25 an integer, as it is a float in the source
GruntHeights == {48, 64}
VerticalHalves == {"top", "bottom"}

VARIABLES
    \* ---- StraferGruntGroup
    max_rows,
    max_grunts_per_row,
    top_grunts_per_row,
    bottom_grunts_per_row,
    top_row_to_fill,
    bottom_row_to_fill,
    strafer_grunts,          \* bag of the member sprites [grunt_row, spawn_direction, stopping_point_y]
    player__vertical_half,   \* stat_tracker.player__vertical_half.text
    grunt_height,            \* StraferGrunt.rect.height
    caller_checks_is_full,   \* whether the caller tests is_full before create_new_grunt
    before_create,           \* trace, kept when .traced: the rows and pointers before
                             \* the last creation, and the grunt it made
    \* ---- SpinnerGruntGroup
    grunts_on_screen,
    max_grunts,
    spinner_grunts,          \* the sprites in the group
    \* ---- Player
    rect,                    \* left and top of the player's rect
    mask_size,               \* (width, height) of the player's mask
    enemies,                 \* the enemy sprites: position and is_dead
    overlapping_enemies,
    \* results and arguments of the operation performed last (cleared by the others)
    enemy_collision_vector,  \* what get_enemy_collision_vector returned
    pressed_keys,            \* the direction keys handed to move
    movement_vector,         \* movement_vector of move, as [x, y]
    player__enemies_collided,
    \* ---- Player health
    health,
    max_health,
    player_groups,           \* the sprite groups the player is a member of
    event_queue,             \* the events posted with pg.event.post, oldest first
    player__curr_health,
    player__health_lost,
    player__health_gained,
    player_invincible,       \* settings_manager.player_invincible
    PLAYER_INVINCIBLE,       \* debug.PLAYER_INVINCIBLE
    \* ---- loading screen (menus/loading.py)
    MAX_APP,                 \* "None" or the launched process
    MAX_OPEN,
    MAX_FULLY_LOADED,
    REASON_TEXT,             \* the text of REASON_TEXT
    percent,                 \* the percentage written to PERCENT_TEXT
    elapsed_load_time,
    screentime,              \* frames of the studio logo shown so far
    frames_since_yield,      \* frames flipped since the coroutine last suspended
    transport,               \* the OSC server endpoint: "none", "open", "closed"
    channel,                 \* addresses of the datagrams sent by Max, not yet handled
    load_pc,                 \* position of open_max_application
    DISABLE_OPENING_MAX_APPLICATION,
    \* ---- stat_tracker control stats and the bundles sent
    control__max_init,
    control__max_quit,
    control__menu_init,
    control__record_music,
    sent_bundles,            \* the bundles handed to the OSC client, oldest first
    sink_received,           \* the bundles that reached Max
    \* ---- main
    main_loop,
    next_state,
    main_pc,                 \* position of main
    exception,               \* the exception main ended with, or "none"
    \* ---- stat_tracker (stats.py), the stats not listed above
    start_time,
    time_last_enemy_killed,
    control__game_init,
    game__play_count,
    game__time__total_played,
    game__score,
    game__time__current_playthrough,
    player__position,
    player__curr_speed,
    player__angle,
    player__rotation_amount,
    player__avg_shots_per_second,
    player__accuracy,        \* a quotient, as <<numerator, denominator>>
    player__avg_time_between_kills,
    player__max_health,
    player__near_misses,
    weapon__selected,
    weapon__total_shots_fired,
    weapon__shots_per_weapon,
    enemies__num_on_screen,
    enemies__hit,
    enemies__killed,
    \* ---- a Projectile (projectiles.py)
    projectile,              \* the attributes of the sprite, .created once it exists
    projectile_error,        \* what the last construction raised, or "none"
    projectile_request,      \* trace: the class and variant_number last asked for
    \* ---- the player's equipped Weapon (weapons, player.py)
    weapon,                  \* num_ammo, rate_of_fire, center_deltas, last_time_shot
    current_time,            \* pg.time.get_ticks()
    player_projectiles,      \* the projectile group of the weapon
    all_sprites_projectiles, \* the projectiles in the all_sprites group
    player__frames__firing,
    attack_log,              \* trace: time, ammo before and outcome of each attempt
    weapon_given_ammo,       \* trace: the ammo the weapon was created with
    last_call,               \* trace: the arguments of the last init_new_playthrough
                             \* and the stats it replaced
    \* ---- trace
    untracked_by_last_call,  \* enemies that get_enemy_collision_vector removed
    last_op                  \* name of the operation performed last

strafer_vars == <<max_rows, max_grunts_per_row, top_grunts_per_row, bottom_grunts_per_row,
                  top_row_to_fill, bottom_row_to_fill, strafer_grunts,
                  player__vertical_half, grunt_height, caller_checks_is_full,
                  before_create>>
spinner_vars == <<grunts_on_screen, max_grunts, spinner_grunts>>
player_vars == <<rect, mask_size, enemies, overlapping_enemies, enemy_collision_vector,
                 pressed_keys, movement_vector, player__enemies_collided,
                 untracked_by_last_call>>
health_vars == <<health, max_health, player_groups, event_queue, player__curr_health,
                 player__health_lost, player__health_gained, player_invincible,
                 PLAYER_INVINCIBLE>>
loading_vars == <<MAX_APP, MAX_OPEN, MAX_FULLY_LOADED, REASON_TEXT, percent,
                  elapsed_load_time, screentime, frames_since_yield, transport, channel,
                  load_pc, DISABLE_OPENING_MAX_APPLICATION>>
stat_vars == <<control__max_init, control__max_quit, control__menu_init,
               control__record_music, sent_bundles, sink_received>>
main_vars == <<main_loop, next_state, main_pc, exception>>
app_vars == <<loading_vars, stat_vars, main_vars>>
tracker_vars == <<start_time, time_last_enemy_killed, control__game_init, game__play_count,
                  game__time__total_played, game__score, game__time__current_playthrough,
                  player__position, player__curr_speed, player__angle,
                  player__rotation_amount, player__avg_shots_per_second, player__accuracy,
                  player__avg_time_between_kills, player__max_health, player__near_misses,
                  weapon__selected, weapon__total_shots_fired, weapon__shots_per_weapon,
                  enemies__num_on_screen, enemies__hit, enemies__killed>>
\* the components that follow the application
projectile_vars == <<projectile, projectile_error, projectile_request>>
weapon_vars == <<weapon, current_time, player_projectiles, all_sprites_projectiles,
                 player__frames__firing, attack_log, weapon_given_ammo>>
rest_vars == <<tracker_vars, projectile_vars, weapon_vars, last_call>>
\* what the stat tracker's own operations leave alone
beside_tracker_vars == <<strafer_vars, spinner_vars, player_vars, app_vars, projectile_vars,
                         weapon_vars>>
\* what a projectile's own operations leave alone
beside_projectile_vars == <<strafer_vars, spinner_vars, player_vars, health_vars, app_vars,
                            tracker_vars, weapon_vars, last_call>>
\* what the weapon's own operations leave alone
beside_weapon_vars == <<strafer_vars, spinner_vars, player_vars, health_vars, app_vars,
                        tracker_vars, projectile_vars, last_call>>
vars == <<strafer_vars, spinner_vars, player_vars, health_vars, app_vars, rest_vars,
          last_op>>

(***************************************************************************)
(* StraferGruntGroup                                                       *)
(***************************************************************************)
RECURSIVE SumFrom(_, _)
\* sum(rows[row:])
SumFrom(rows, row) ==
    IF row \notin DOMAIN rows THEN 0 ELSE rows[row] + SumFrom(rows, row + 1)

\* sum(self.top_grunts_per_row) + sum(self.bottom_grunts_per_row)
total_grunts(top, bottom) == SumFrom(top, 0) + SumFrom(bottom, 0)

Strafer_is_full_strict(top, bottom, per_row, rows) ==
    total_grunts(top, bottom) > per_row * rows

Strafer_is_full(top, bottom, per_row, rows) ==
    total_grunts(top, bottom) >= per_row * rows

RECURSIVE ScanRowsInclusive(_, _, _, _)
ScanRowsInclusive(rows, per_row, row, cur) ==
    IF row \notin DOMAIN rows THEN cur
    ELSE IF rows[row] <= per_row THEN row
    ELSE ScanRowsInclusive(rows, per_row, row + 1, cur)

RECURSIVE ScanRows(_, _, _, _)
\* one loop of update_curr_row, from index row on: the first row below per_row is
\* assigned and the loop breaks; a loop that never breaks leaves the pointer at cur
ScanRows(rows, per_row, row, cur) ==
    IF row \notin DOMAIN rows THEN cur
    ELSE IF rows[row] < per_row THEN row
    ELSE ScanRows(rows, per_row, row + 1, cur)

update_curr_row_inclusive(rows, per_row, cur) == ScanRowsInclusive(rows, per_row, 0, cur)

update_curr_row(rows, per_row, cur) == ScanRows(rows, per_row, 0, cur)

\* grunt_row and spawn_direction of create_new_grunt
grunt_row_swapped(half, top_ptr, bottom_ptr) ==
    IF half = "bottom" THEN bottom_ptr ELSE top_ptr

grunt_row_for(half, top_ptr, bottom_ptr) ==
    IF half = "bottom" THEN top_ptr ELSE bottom_ptr

spawn_direction_always_down(half) == 1

spawn_direction_for(half) == IF half = "bottom" THEN 1 ELSE -1

\* grunt_y_position of create_new_grunt
grunt_y_never_mirrored(half, row, height) ==
    ROW_START + ((row * height * ROW_SPACING_NUM) \div ROW_SPACING_DEN)

grunt_y_position(half, row, height) ==
    LET offset == ROW_START + ((row * height * ROW_SPACING_NUM) \div ROW_SPACING_DEN)
    IN  IF half = "top" THEN SCREEN_HEIGHT - offset ELSE offset

\* the row counts after StraferGruntGroup.add of one grunt
add_top(half, top, top_ptr) ==
    IF half = "bottom" THEN [top EXCEPT ![top_ptr] = @ + 1] ELSE top

add_bottom(half, bottom, bottom_ptr) ==
    IF half = "bottom" THEN bottom ELSE [bottom EXCEPT ![bottom_ptr] = @ + 1]

NewStraferGrunt ==
    LET row == grunt_row_for(player__vertical_half, top_row_to_fill, bottom_row_to_fill)
    IN  [grunt_row        |-> row,
         spawn_direction  |-> spawn_direction_for(player__vertical_half),
         stopping_point_y |-> grunt_y_position(player__vertical_half, row, grunt_height)]

\* the row counts and pointers of the group, with a grunt about to join it
RowsAndPointers(grunt) ==
    IF ~before_create.traced THEN before_create ELSE
    [traced |-> TRUE,
     top_grunts_per_row |-> top_grunts_per_row,
     bottom_grunts_per_row |-> bottom_grunts_per_row,
     top_row_to_fill |-> top_row_to_fill,
     bottom_row_to_fill |-> bottom_row_to_fill,
     grunt |-> grunt]

\* the player crosses the horizontal midline of the screen
UpdateVerticalHalf(half) ==
    /\ half # player__vertical_half
    /\ player__vertical_half' = half
    /\ last_op' = "update_vertical_half"
    /\ UNCHANGED <<max_rows, max_grunts_per_row, top_grunts_per_row, bottom_grunts_per_row,
                   top_row_to_fill, bottom_row_to_fill, strafer_grunts, grunt_height,
                   caller_checks_is_full, before_create>>
    /\ UNCHANGED <<spinner_vars, player_vars, health_vars, app_vars, rest_vars>>

\* StraferGruntGroup.create_new_grunt: build the grunt, self.add, self.update_curr_row
Strafer_create_new_grunt ==
    /\ caller_checks_is_full =>
         ~Strafer_is_full(top_grunts_per_row, bottom_grunts_per_row, max_grunts_per_row, max_rows)
    /\ total_grunts(top_grunts_per_row, bottom_grunts_per_row)
         < max_grunts_per_row * max_rows + MaxOverfill
    /\ LET grunt  == NewStraferGrunt
           top    == add_top(player__vertical_half, top_grunts_per_row, top_row_to_fill)
           bottom == add_bottom(player__vertical_half, bottom_grunts_per_row, bottom_row_to_fill)
       IN  /\ strafer_grunts' = strafer_grunts (+) SetToBag({grunt})
           /\ top_grunts_per_row' = top
           /\ bottom_grunts_per_row' = bottom
           /\ top_row_to_fill' = update_curr_row(top, max_grunts_per_row, top_row_to_fill)
           /\ bottom_row_to_fill' = update_curr_row(bottom, max_grunts_per_row, bottom_row_to_fill)
    /\ before_create' = RowsAndPointers(NewStraferGrunt)
    /\ last_op' = "create_new_grunt"
    /\ UNCHANGED <<max_rows, max_grunts_per_row, player__vertical_half, grunt_height,
                   caller_checks_is_full>>
    /\ UNCHANGED <<spinner_vars, player_vars, health_vars, app_vars, rest_vars>>

\* StraferGruntGroup.add called on its own with a freshly built grunt: the row
\* count is incremented and update_curr_row is not called
Strafer_add ==
    /\ total_grunts(top_grunts_per_row, bottom_grunts_per_row)
         < max_grunts_per_row * max_rows + MaxOverfill
    /\ strafer_grunts' = strafer_grunts (+) SetToBag({NewStraferGrunt})
    /\ top_grunts_per_row' = add_top(player__vertical_half, top_grunts_per_row, top_row_to_fill)
    /\ bottom_grunts_per_row' =
         add_bottom(player__vertical_half, bottom_grunts_per_row, bottom_row_to_fill)
    /\ before_create' = RowsAndPointers(NewStraferGrunt)
    /\ last_op' = "add"
    /\ UNCHANGED <<top_row_to_fill, bottom_row_to_fill, max_rows, max_grunts_per_row,
                   player__vertical_half, grunt_height, caller_checks_is_full>>
    /\ UNCHANGED <<spinner_vars, player_vars, health_vars, app_vars, rest_vars>>

\* StraferGruntGroup.remove_internal, reached from grunt.kill() and group.remove(grunt)
Strafer_remove_internal(grunt) ==
    /\ BagIn(grunt, strafer_grunts)
    /\ LET top    == IF grunt.spawn_direction = 1
                     THEN [top_grunts_per_row EXCEPT ![grunt.grunt_row] = @ - 1]
                     ELSE top_grunts_per_row
           bottom == IF grunt.spawn_direction = 1
                     THEN bottom_grunts_per_row
                     ELSE [bottom_grunts_per_row EXCEPT ![grunt.grunt_row] = @ - 1]
       IN  /\ top_grunts_per_row' = top
           /\ bottom_grunts_per_row' = bottom
           /\ strafer_grunts' = strafer_grunts (-) SetToBag({grunt})
           /\ top_row_to_fill' = update_curr_row(top, max_grunts_per_row, top_row_to_fill)
           /\ bottom_row_to_fill' = update_curr_row(bottom, max_grunts_per_row, bottom_row_to_fill)
    /\ last_op' = "remove"
    /\ UNCHANGED <<max_rows, max_grunts_per_row, player__vertical_half, grunt_height,
                   caller_checks_is_full, before_create>>
    /\ UNCHANGED <<spinner_vars, player_vars, health_vars, app_vars, rest_vars>>

\* StraferGruntGroup.set_row_limits
Strafer_set_row_limits(new_max_rows, new_max_grunts_per_row) ==
    /\ max_rows' = new_max_rows
    /\ max_grunts_per_row' = new_max_grunts_per_row
    /\ last_op' = "set_row_limits"
    /\ UNCHANGED <<top_grunts_per_row, bottom_grunts_per_row, top_row_to_fill,
                   bottom_row_to_fill, strafer_grunts, player__vertical_half,
                   grunt_height, caller_checks_is_full, before_create>>
    /\ UNCHANGED <<spinner_vars, player_vars, health_vars, app_vars, rest_vars>>

\* no member has been created
NoCreation(traced) ==
    [traced |-> traced,
     top_grunts_per_row |-> [row \in 0..(MAX_ROWS - 1) |-> 0],
     bottom_grunts_per_row |-> [row \in 0..(MAX_ROWS - 1) |-> 0],
     top_row_to_fill |-> 0,
     bottom_row_to_fill |-> 0,
     grunt |-> [grunt_row |-> 0, spawn_direction |-> 0, stopping_point_y |-> 0]]

\* StraferGruntGroup.__init__
InitStrafer(height, checks) ==
    /\ max_rows = MAX_ROWS
    /\ max_grunts_per_row = MAX_GRUNTS_PER_ROW
    /\ top_grunts_per_row = [row \in 0..(MAX_ROWS - 1) |-> 0]
    /\ bottom_grunts_per_row = [row \in 0..(MAX_ROWS - 1) |-> 0]
    /\ top_row_to_fill = 0
    /\ bottom_row_to_fill = 0
    /\ strafer_grunts = EmptyBag
    /\ player__vertical_half \in VerticalHalves
    /\ grunt_height = height
    /\ caller_checks_is_full = checks
    /\ before_create = NoCreation(FALSE)

\* StraferGruntGroup.__init__ of a group whose creations are traced
InitStraferTraced(height, checks) ==
    /\ max_rows = MAX_ROWS
    /\ max_grunts_per_row = MAX_GRUNTS_PER_ROW
    /\ top_grunts_per_row = [row \in 0..(MAX_ROWS - 1) |-> 0]
    /\ bottom_grunts_per_row = [row \in 0..(MAX_ROWS - 1) |-> 0]
    /\ top_row_to_fill = 0
    /\ bottom_row_to_fill = 0
    /\ strafer_grunts = EmptyBag
    /\ player__vertical_half \in VerticalHalves
    /\ grunt_height = height
    /\ caller_checks_is_full = checks
    /\ before_create = NoCreation(TRUE)

\* SpinnerGruntGroup.__init__
InitSpinner ==
    /\ grunts_on_screen = 0
    /\ max_grunts = INITIAL_MAX_GRUNTS
    /\ spinner_grunts = {}

\* (width, height) of the player's mask; both masks are modelled as solid: the
\* player's fills its rect and an enemy's is the single pixel at its position
PlayerShapes == {(0 :> 20 @@ 1 :> 20), (0 :> 20 @@ 1 :> 25)}
EnemyIds == {1, 2}
EnemyPoints == {(0 :> ex @@ 1 :> ey) : ex \in {5, 15}, ey \in {5, 15}}
DirectionKeys == {"K_UP", "K_DOWN", "K_LEFT", "K_RIGHT"}
\* the snapshots of pressed direction keys handed to move
KeySnapshots == {{}, {"K_UP"}, {"K_DOWN"}, {"K_LEFT"}, {"K_RIGHT"},
                 {"K_UP", "K_LEFT"}, {"K_DOWN", "K_RIGHT"}, DirectionKeys}
NoFlags == [direction \in 0..3 |-> 0]

\* Player.__init__: rect at the spawn location (horizontally centred, at the
\* bottom of the field), nothing tracked
InitPlayer(shape) ==
    /\ mask_size = shape
    /\ rect = [x |-> (FieldWidth - shape[0]) \div 2, y |-> FieldHeight - shape[1]]
    /\ enemies \in [EnemyIds -> [pos : EnemyPoints, is_dead : {FALSE}]]
    /\ overlapping_enemies = {}
    /\ enemy_collision_vector = NoFlags
    /\ pressed_keys = {}
    /\ movement_vector = (0 :> 0 @@ 1 :> 0)
    /\ player__enemies_collided = 0
    /\ untracked_by_last_call = {}

\* the player state of the specifications that leave the player alone
IdlePlayer ==
    /\ mask_size = (0 :> 20 @@ 1 :> 20)
    /\ rect = [x |-> 0, y |-> 0]
    /\ enemies = [enemy \in EnemyIds |-> [pos |-> (0 :> 5 @@ 1 :> 5), is_dead |-> FALSE]]
    /\ overlapping_enemies = {}
    /\ enemy_collision_vector = NoFlags
    /\ pressed_keys = {}
    /\ movement_vector = (0 :> 0 @@ 1 :> 0)
    /\ player__enemies_collided = 0
    /\ untracked_by_last_call = {}

\* Player.__init__ and StatTracker.init_new_playthrough: full health, member of
\* all_sprites (create_player), nothing posted
InitHealth(easy_mode, invincible, debug_invincible) ==
    /\ health = IF easy_mode THEN EASY_MODE_HEALTH ELSE DEFAULT_HEALTH
    /\ max_health = health
    /\ player_groups = {"all_sprites"}
    /\ event_queue = <<>>
    /\ player__curr_health = max_health
    /\ player__health_lost = 0
    /\ player__health_gained = 0
    /\ player_invincible = invincible
    /\ PLAYER_INVINCIBLE = debug_invincible

\* the health state of the specifications that leave the player's health alone
IdleHealth == InitHealth(FALSE, FALSE, FALSE)

\* the module globals of menus/loading.py, StatTracker.__init__ and the locals
\* of main before its first statement
InitApp(disabled) ==
    /\ MAX_APP = "None"
    /\ MAX_OPEN = FALSE
    /\ MAX_FULLY_LOADED = FALSE
    /\ REASON_TEXT = MAX_OPEN_STR
    /\ percent = 0
    /\ elapsed_load_time = 0
    /\ screentime = 0
    /\ frames_since_yield = 0
    /\ transport = "none"
    /\ channel = {}
    /\ load_pc = "NOT_STARTED"
    /\ DISABLE_OPENING_MAX_APPLICATION = disabled
    /\ control__max_init = 0
    /\ control__max_quit = 0
    /\ control__menu_init = 0
    /\ control__record_music = 0
    /\ sent_bundles = <<>>
    /\ sink_received = <<>>
    /\ main_loop = TRUE
    /\ next_state = "LOADING_SCREEN"
    /\ main_pc = "main"
    /\ exception = "none"

\* the application state of the specifications that leave main alone
IdleApp == InitApp(FALSE)

\* a breakdown whose divisions round towards zero
TimeStat_truncating(total_ms) ==
    LET magnitude == IF total_ms < 0 THEN 0 - total_ms ELSE total_ms
        sign == IF total_ms < 0 THEN 0 - 1 ELSE 1
    IN  [total_ms |-> total_ms,
         hours |-> sign * (((magnitude \div 1000) \div 60) \div 60),
         minutes |-> sign * (((magnitude \div 1000) \div 60) % 60),
         seconds |-> sign * ((magnitude \div 1000) % 60),
         ms |-> sign * (magnitude % 1000)]
\* TimeStat.__init__: the breakdown of a time in milliseconds; divmod rounds
\* towards minus infinity, as \div and % do
TimeStat(total_ms) ==
    [total_ms |-> total_ms,
     hours |-> ((total_ms \div 1000) \div 60) \div 60,
     minutes |-> ((total_ms \div 1000) \div 60) % 60,
     seconds |-> (total_ms \div 1000) % 60,
     ms |-> total_ms % 1000]
\* AvgStat.__init__
AvgStat == [sum |-> 0, count |-> 0]
\* ListStat.__init__
ListStat(initial_length) == [index \in 0..(initial_length - 1) |-> 0]

\* the per-playthrough stats as init_new_playthrough creates them
NewPlaythroughStats(start_time_ms, player_max_health) ==
    /\ start_time = start_time_ms
    /\ time_last_enemy_killed = start_time_ms
    /\ control__game_init = 0
    /\ game__score = 0
    /\ game__time__current_playthrough = TimeStat(0)
    /\ player__position = ListStat(2)
    /\ player__curr_speed = 0
    /\ player__angle = 0
    /\ player__rotation_amount = 0
    /\ player__avg_shots_per_second = AvgStat
    /\ player__accuracy = <<0, 1>>
    /\ player__avg_time_between_kills = AvgStat
    /\ player__max_health = player_max_health
    /\ player__near_misses = 0
    /\ weapon__selected = 0
    /\ weapon__total_shots_fired = 0
    /\ weapon__shots_per_weapon = ListStat(2)
    /\ enemies__num_on_screen = 0
    /\ enemies__hit = 0
    /\ enemies__killed = 0

\* StatTracker.__init__; the per-playthrough stats, which the source creates
\* in init_new_playthrough only, hold the values it gives them
InitTracker ==
    /\ game__play_count = 0
    /\ game__time__total_played = TimeStat(0)
    /\ NewPlaythroughStats(0, 0)

\* the state of the later components in the specifications that leave them alone
\* the projectile classes of projectiles.py; None is "None" for COLOR and the
\* empty tuple for AVAILABLE_VARIANTS
PlayerMusicNote ==
    [name |-> "PlayerMusicNote", DEFAULT_DAMAGE |-> 1, DEFAULT_SPEED |-> 1,
     DEFAULT_ANGLE |-> 180, COLOR |-> "None", AVAILABLE_COLORS |-> {"blue", "red"},
     AVAILABLE_VARIANTS |-> <<>>, NUM_VARIANTS |-> 6]
PlayerAccidental ==
    [name |-> "PlayerAccidental", DEFAULT_DAMAGE |-> 5, DEFAULT_SPEED |-> 8,
     DEFAULT_ANGLE |-> 0, COLOR |-> "None", AVAILABLE_COLORS |-> {},
     AVAILABLE_VARIANTS |-> <<"natural", "sharp", "flat">>, NUM_VARIANTS |-> 3]
EnemyQuarterRest ==
    [name |-> "EnemyQuarterRest", DEFAULT_DAMAGE |-> 1, DEFAULT_SPEED |-> 10,
     DEFAULT_ANGLE |-> 180, COLOR |-> "None", AVAILABLE_COLORS |-> {},
     AVAILABLE_VARIANTS |-> <<"rest">>, NUM_VARIANTS |-> 1]
EnemyAccidental ==
    [name |-> "EnemyAccidental", DEFAULT_DAMAGE |-> 1, DEFAULT_SPEED |-> 1,
     DEFAULT_ANGLE |-> 0, COLOR |-> "None", AVAILABLE_COLORS |-> {},
     AVAILABLE_VARIANTS |-> <<"natural", "sharp", "flat">>, NUM_VARIANTS |-> 3]
\* a subclass of PlayerMusicNote that sets COLOR
ColoredMusicNote(color) == [PlayerMusicNote EXCEPT !.name = "ColoredMusicNote",
                                                   !.COLOR = color]

\* no projectile has been constructed
NoProjectile ==
    [created |-> FALSE, class |-> "None", color |-> "None", variant_number |-> 0,
     variant |-> "", rect |-> [left |-> 0, top |-> 0, width |-> 0, height |-> 0],
     starting_position |-> <<0, 0>>, damage |-> 0, movement_speed |-> 0,
     movement_angle |-> 0, groups |-> {}]
InitProjectile ==
    /\ projectile = NoProjectile
    /\ projectile_error = "none"
    /\ projectile_request = [class |-> "None", color |-> "None", variant_number |-> 0,
                             num_variants |-> 0, available_colors |-> {}]

\* Weapon.INFINITE_AMMO, a value no ammo count takes
INFINITE_AMMO == 0 - 1
\* Weapon.__init__ for the arguments create_player and the groups hand over
InitWeapon(num_ammo, rate_of_fire, center_deltas) ==
    /\ weapon = [num_ammo |-> num_ammo, rate_of_fire |-> rate_of_fire,
                 center_deltas |-> center_deltas, last_time_shot |-> 0]
    /\ weapon_given_ammo = num_ammo
    /\ current_time = 0
    /\ player_projectiles = {}
    /\ all_sprites_projectiles = {}
    /\ player__frames__firing = 0
    /\ attack_log = <<>>
\* the energy_turret of create_player
IdleWeapon == InitWeapon(INFINITE_AMMO, 100, <<<<0, 24>>, <<0, 0 - 24>>>>)

IdleRest ==
    /\ InitTracker
    /\ InitProjectile
    /\ IdleWeapon
    /\ last_call = [start_time_ms |-> 0, player_max_health |-> 0, score |-> 0,
                    shots_fired |-> 0, health_lost |-> 0]

StraferInit ==
    /\ \E height \in GruntHeights, checks \in BOOLEAN : InitStrafer(height, checks)
    /\ InitSpinner
    /\ IdlePlayer
    /\ IdleHealth
    /\ IdleApp
    /\ IdleRest
    /\ last_op = "init"

StraferNext ==
    \/ \E half \in VerticalHalves : UpdateVerticalHalf(half)
    \/ Strafer_create_new_grunt
    \/ \E grunt \in BagToSet(strafer_grunts) : Strafer_remove_internal(grunt)

SpecStrafer == StraferInit /\ [][StraferNext]_vars

StraferAddNext ==
    \/ StraferNext
    \/ Strafer_add

SpecStraferAdd == StraferInit /\ [][StraferAddNext]_vars

\* a group whose creations are traced
StraferTracedInit ==
    /\ \E checks \in BOOLEAN :
           InitStraferTraced(CHOOSE height \in GruntHeights : TRUE, checks)
    /\ InitSpinner
    /\ IdlePlayer
    /\ IdleHealth
    /\ IdleApp
    /\ IdleRest
    /\ last_op = "init"

SpecStraferTraced == StraferTracedInit /\ [][StraferNext]_vars

\* a group whose caller tests is_full before every create_new_grunt and may
\* change the row limits
StraferLimitsInit ==
    /\ \E height \in GruntHeights : InitStrafer(height, TRUE)
    /\ InitSpinner
    /\ IdlePlayer
    /\ IdleHealth
    /\ IdleApp
    /\ IdleRest
    /\ last_op = "init"

StraferLimitsNext ==
    \/ StraferNext
    \/ \E new_max_rows \in 1..MaxRowLimit, new_max_grunts_per_row \in 1..MaxPerRowLimit :
           Strafer_set_row_limits(new_max_rows, new_max_grunts_per_row)

SpecStraferLimits == StraferLimitsInit /\ [][StraferLimitsNext]_vars

(***************************************************************************)
(* Properties of StraferGruntGroup                                         *)
(***************************************************************************)
Capacity == max_rows * max_grunts_per_row
TotalInRows == total_grunts(top_grunts_per_row, bottom_grunts_per_row)
IsFull == Strafer_is_full(top_grunts_per_row, bottom_grunts_per_row, max_grunts_per_row, max_rows)

\* rows below capacity that have no lower-indexed row below capacity
LowestBelow(rows, per_row) ==
    {r \in DOMAIN rows : rows[r] < per_row /\ \A q \in DOMAIN rows : q < r => rows[q] >= per_row}
AllAtCapacity(rows, per_row) == \A r \in DOMAIN rows : rows[r] >= per_row

\* C1 as stated: for every sequence of create_new_grunt and removals, the sum of
\* the row counts never exceeds max_rows * max_grunts_per_row and is_full is true
\* exactly when the sum equals it.
C1_AnySequenceWithinCapacity ==
    /\ TotalInRows <= Capacity
    /\ IsFull <=> (TotalInRows = Capacity)

\* C1 amended: when create_new_grunt is invoked only while is_full is false, the
\* sum of the row counts never exceeds max_rows * max_grunts_per_row and is_full
\* is true exactly when the sum equals it.
C1_GuardedWithinCapacity ==
    caller_checks_is_full =>
        /\ TotalInRows <= Capacity
        /\ IsFull <=> (TotalInRows = Capacity)

\* a guarded group filled to capacity from both row sets
C1_Witness ==
    /\ caller_checks_is_full
    /\ last_op = "create_new_grunt"
    /\ TotalInRows = Capacity
    /\ IsFull
    /\ SumFrom(top_grunts_per_row, 0) > 0
    /\ SumFrom(bottom_grunts_per_row, 0) > 0

PointerRecomputed(rows_after, ptr_before, ptr_after) ==
    IF AllAtCapacity(rows_after, max_grunts_per_row)
    THEN ptr_after = ptr_before
    ELSE ptr_after \in LowestBelow(rows_after, max_grunts_per_row)

\* C2: after a member is removed, each row pointer is the lowest-indexed row of
\* its set that is below max_grunts_per_row, and keeps its previous value when
\* every row of the set is at capacity.
C2_RemoveRecomputesPointers ==
    [][last_op' = "remove" =>
          /\ PointerRecomputed(top_grunts_per_row', top_row_to_fill, top_row_to_fill')
          /\ PointerRecomputed(bottom_grunts_per_row', bottom_row_to_fill, bottom_row_to_fill')]_vars

\* after a removal from the bottom set the top set is still saturated and its
\* pointer stays on the last row, while the bottom pointer is on its first row
C2_Witness ==
    /\ last_op = "remove"
    /\ AllAtCapacity(top_grunts_per_row, max_grunts_per_row)
    /\ top_row_to_fill = 1
    /\ bottom_grunts_per_row[0] = 2
    /\ bottom_grunts_per_row[1] = 1
    /\ bottom_row_to_fill = 0

PointerValid(rows, ptr) ==
    /\ ptr \in DOMAIN rows
    /\ rows[ptr] < max_grunts_per_row \/ AllAtCapacity(rows, max_grunts_per_row)

\* C3: in every state reached by add, create_new_grunt and removal, each row
\* pointer is a valid index that designates a row below max_grunts_per_row or
\* belongs to a row set whose rows are all at capacity.
C3_PointersNeverStale ==
    /\ PointerValid(top_grunts_per_row, top_row_to_fill)
    /\ PointerValid(bottom_grunts_per_row, bottom_row_to_fill)

RowOffset(row) == ROW_START + ((row * grunt_height * ROW_SPACING_NUM) \div ROW_SPACING_DEN)

\* C5 as stated: the stopping y of a member is ROW_START + row * height *
\* ROW_SPACING, mirrored to SCREEN_HEIGHT minus that exactly when the spawn
\* targets the top row set.
C5_MirroredForTopSet ==
    \A g \in BagToSet(strafer_grunts) :
        g.stopping_point_y =
            IF g.spawn_direction = 1
            THEN SCREEN_HEIGHT - RowOffset(g.grunt_row)
            ELSE RowOffset(g.grunt_row)

\* C5 amended: the stopping y of a member is ROW_START + row * height *
\* ROW_SPACING, mirrored to SCREEN_HEIGHT minus that exactly when the spawn
\* targets the bottom row set (player in the top half, spawn_direction -1).
C5_MirroredForBottomSet ==
    \A g \in BagToSet(strafer_grunts) :
        g.stopping_point_y =
            IF g.spawn_direction = -1
            THEN SCREEN_HEIGHT - RowOffset(g.grunt_row)
            ELSE RowOffset(g.grunt_row)

\* members in the second row of both row sets
C5_Witness ==
    /\ \E g \in BagToSet(strafer_grunts) : g.spawn_direction = 1 /\ g.grunt_row = 1
    /\ \E g \in BagToSet(strafer_grunts) : g.spawn_direction = -1 /\ g.grunt_row = 1

(***************************************************************************)
(* SpinnerGruntGroup                                                       *)
(***************************************************************************)
SpinnerIds == 1..MaxSpinnerIds
\* arguments handed to change_max_grunts and set_max_grunts
SpinnerArgs == (0 - MaxNegative)..MaxSpinnerCapacity

Spinner_is_full_strict(on_screen, limit) == on_screen > limit

Spinner_is_full(on_screen, limit) == on_screen >= limit

\* max_grunts after change_max_grunts(max_delta)
changed_max_grunts(limit, max_delta) ==
    IF limit + max_delta < 0 THEN 0 ELSE limit + max_delta

\* SpinnerGruntGroup.create_new_grunt, invoked while is_full is false: a new
\* sprite is built and handed to self.add
Spinner_create_new_grunt ==
    /\ ~Spinner_is_full(grunts_on_screen, max_grunts)
    /\ \E grunt \in SpinnerIds :
        /\ grunt \notin spinner_grunts
        /\ \A other \in SpinnerIds : other < grunt => other \in spinner_grunts
        /\ spinner_grunts' = spinner_grunts \cup {grunt}
    /\ grunts_on_screen' = grunts_on_screen + 1
    /\ last_op' = "create_new_grunt"
    /\ UNCHANGED max_grunts
    /\ UNCHANGED <<strafer_vars, player_vars, health_vars, app_vars, rest_vars>>

\* SpinnerGruntGroup.remove_internal, reached from grunt.kill() and group.remove(grunt)
Spinner_remove_internal(grunt) ==
    /\ grunt \in spinner_grunts
    /\ spinner_grunts' = spinner_grunts \ {grunt}
    /\ grunts_on_screen' = grunts_on_screen - 1
    /\ last_op' = "remove"
    /\ UNCHANGED max_grunts
    /\ UNCHANGED <<strafer_vars, player_vars, health_vars, app_vars, rest_vars>>

\* SpinnerGruntGroup.change_max_grunts
Spinner_change_max_grunts(max_delta) ==
    /\ max_grunts + max_delta <= MaxSpinnerCapacity
    /\ max_grunts' = changed_max_grunts(max_grunts, max_delta)
    /\ last_op' = "change_max_grunts"
    /\ UNCHANGED <<grunts_on_screen, spinner_grunts>>
    /\ UNCHANGED <<strafer_vars, player_vars, health_vars, app_vars, rest_vars>>

\* SpinnerGruntGroup.set_max_grunts
Spinner_set_max_grunts(new_max_grunts) ==
    /\ max_grunts' = new_max_grunts
    /\ last_op' = "set_max_grunts"
    /\ UNCHANGED <<grunts_on_screen, spinner_grunts>>
    /\ UNCHANGED <<strafer_vars, player_vars, health_vars, app_vars, rest_vars>>

SpinnerInit ==
    /\ InitStrafer(CHOOSE height \in GruntHeights : TRUE, TRUE)
    /\ player__vertical_half = "bottom"
    /\ InitSpinner
    /\ IdlePlayer
    /\ IdleHealth
    /\ IdleApp
    /\ IdleRest
    /\ last_op = "init"

SpinnerNext ==
    \/ Spinner_create_new_grunt
    \/ \E grunt \in spinner_grunts : Spinner_remove_internal(grunt)
    \/ \E max_delta \in SpinnerArgs : Spinner_change_max_grunts(max_delta)
    \/ \E new_max_grunts \in SpinnerArgs : Spinner_set_max_grunts(new_max_grunts)

SpecSpinner == SpinnerInit /\ [][SpinnerNext]_vars

\* SpinnerGruntGroup.add of one sprite, a member or not: Group.add takes in a
\* sprite the group does not hold yet, and the counter goes up either way
Spinner_add(grunt) ==
    /\ grunts_on_screen < MaxSpinnerCount
    /\ spinner_grunts' = spinner_grunts \cup {grunt}
    /\ grunts_on_screen' = grunts_on_screen + 1
    /\ last_op' = "add"
    /\ UNCHANGED max_grunts
    /\ UNCHANGED <<strafer_vars, player_vars, health_vars, app_vars, rest_vars>>

SpinnerAddNext ==
    \/ SpinnerNext
    \/ \E grunt \in SpinnerIds : Spinner_add(grunt)

SpecSpinnerAdd == SpinnerInit /\ [][SpinnerAddNext]_vars

\* C31: after any sequence of add and removals, grunts_on_screen is the number
\* of sprites in the group and is not negative.
C31_CountIsMembership ==
    /\ grunts_on_screen = Cardinality(spinner_grunts)
    /\ grunts_on_screen >= 0

(***************************************************************************)
(* Properties of SpinnerGruntGroup                                         *)
(***************************************************************************)
\* C6: after any sequence of change_max_grunts and set_max_grunts calls with any
\* integer arguments, max_grunts >= 0.
C6_MaxGruntsNonNegative == max_grunts >= 0

\* C7 as stated: with create_new_grunt invoked only while is_full is false,
\* grunts_on_screen never exceeds max_grunts. It is stated here for the states
\* whose max_grunts is not negative, so that a violation owes nothing to a
\* negative capacity.
C7_CountWithinCapacity == max_grunts >= 0 => grunts_on_screen <= max_grunts

\* C7 amended: grunts_on_screen comes to exceed max_grunts only by a
\* change_max_grunts or set_max_grunts call that lowers max_grunts below the
\* current grunts_on_screen; a create_new_grunt invoked while is_full is false, a
\* removal and every other capacity change keep grunts_on_screen <= max_grunts.
C7_OnlyLoweringExceedsCapacity ==
    [][(/\ grunts_on_screen <= max_grunts
        /\ ~(max_grunts' < max_grunts /\ max_grunts' < grunts_on_screen))
           => grunts_on_screen' <= max_grunts']_vars

\* a creation that fills a group whose capacity was raised above its initial value
C7_Witness ==
    /\ last_op = "create_new_grunt"
    /\ max_grunts > INITIAL_MAX_GRUNTS
    /\ grunts_on_screen = max_grunts
    /\ Cardinality(spinner_grunts) = grunts_on_screen

(***************************************************************************)
(* Player: movement and enemy-collision tracking                           *)
(***************************************************************************)
None == <<>>

\* pg.sprite.collide_mask(self, enemy): the first point of the player's mask,
\* relative to the player's rect, at which the two masks overlap, or None
collide_mask(r, size, pos) ==
    LET horizontal == pos[0] - r.x
        vertical   == pos[1] - r.y
    IN  IF /\ horizontal >= 0 /\ horizontal < size[0]
           /\ vertical >= 0   /\ vertical < size[1]
        THEN (0 :> horizontal @@ 1 :> vertical)
        ELSE None

\* threshold = int(self.mask_size[0] * 0.45)
threshold(size) == (size[0] * THRESHOLD_PERCENT) \div 100

\* the test that ends the tracking of an enemy
no_longer_colliding_ignoring_death(is_dead, collide_point) == collide_point = None

no_longer_colliding(is_dead, collide_point) == is_dead \/ collide_point = None

\* the four checks of one loop iteration, applied to the vector so far
check_directions(vector, collide_point, size) ==
    LET horizontal == collide_point[0]
        vertical   == collide_point[1]
    IN  [direction \in 0..3 |->
            IF \/ direction = 0 /\ vertical < threshold(size)
               \/ direction = 1 /\ vertical > size[1] - threshold(size)
               \/ direction = 2 /\ horizontal < threshold(size)
               \/ direction = 3 /\ horizontal > size[0] - threshold(size)
            THEN 1
            ELSE vector[direction]]

RECURSIVE collision_loop(_, _, _, _, _, _)
\* the for loop over self.overlapping_enemies.copy(): todo are the enemies still
\* to visit, tracked is self.overlapping_enemies, vector the flags set so far
collision_loop(todo, tracked, vector, r, size, sprites) ==
    IF todo = {} THEN [tracked |-> tracked, vector |-> vector]
    ELSE LET enemy == CHOOSE e \in todo : TRUE
             collide_point == collide_mask(r, size, sprites[enemy].pos)
         IN  IF no_longer_colliding(sprites[enemy].is_dead, collide_point)
             THEN collision_loop(todo \ {enemy}, tracked \ {enemy}, vector, r, size, sprites)
             ELSE collision_loop(todo \ {enemy}, tracked,
                                 check_directions(vector, collide_point, size),
                                 r, size, sprites)

\* a variant that visits every enemy sprite, tracked or not
get_enemy_collision_vector_all_enemies(tracked, r, size, sprites) ==
    LET done == collision_loop(tracked, tracked, NoFlags, r, size, sprites)
        seen == collision_loop(DOMAIN sprites, DOMAIN sprites, NoFlags, r, size, sprites)
    IN  [tracked |-> done.tracked, vector |-> seen.vector]

\* Player.get_enemy_collision_vector: the tracked set it leaves and the vector it returns
get_enemy_collision_vector(tracked, r, size, sprites) ==
    LET done == collision_loop(tracked, tracked, NoFlags, r, size, sprites)
    IN  [tracked |-> done.tracked,
         vector  |-> IF Cardinality(done.tracked) <= 0 THEN NoFlags ELSE done.vector]

\* the rect after the four "don't move out of bounds" tests
keep_in_bounds(r, size) ==
    LET x1 == IF r.x < 0 THEN 0 ELSE r.x
        x2 == IF x1 + size[0] > FieldWidth THEN FieldWidth - size[0] ELSE x1
        y1 == IF r.y <= 0 THEN 0 ELSE r.y
        y2 == IF y1 + size[1] > FieldHeight THEN FieldHeight - size[1] ELSE y1
    IN  [x |-> x2, y |-> y2]

\* Player.get_enemy_collision_vector called on its own
Player_get_enemy_collision_vector ==
    /\ LET result == get_enemy_collision_vector(overlapping_enemies, rect, mask_size, enemies)
       IN  /\ overlapping_enemies' = result.tracked
           /\ enemy_collision_vector' = result.vector
           /\ untracked_by_last_call' = overlapping_enemies \ result.tracked
    /\ pressed_keys' = {}
    /\ movement_vector' = (0 :> 0 @@ 1 :> 0)
    /\ last_op' = "get_enemy_collision_vector"
    /\ UNCHANGED <<rect, mask_size, enemies, player__enemies_collided>>
    /\ UNCHANGED <<strafer_vars, spinner_vars, health_vars, app_vars, rest_vars>>

\* Player.move with the rotation keys K_q and K_e released
Player_move(keys) ==
    /\ LET result == get_enemy_collision_vector(overlapping_enemies, rect, mask_size, enemies)
           blocked == result.vector
           up    == IF "K_UP" \in keys /\ blocked[0] # 1 THEN DEFAULT_SPEED ELSE 0
           down  == IF "K_DOWN" \in keys /\ blocked[1] # 1 THEN DEFAULT_SPEED ELSE 0
           left  == IF "K_LEFT" \in keys /\ blocked[2] # 1 THEN DEFAULT_SPEED ELSE 0
           right == IF "K_RIGHT" \in keys /\ blocked[3] # 1 THEN DEFAULT_SPEED ELSE 0
           moved == [x |-> rect.x - left + right, y |-> rect.y - up + down]
       IN  /\ overlapping_enemies' = result.tracked
           /\ enemy_collision_vector' = result.vector
           /\ untracked_by_last_call' = overlapping_enemies \ result.tracked
           /\ movement_vector' = (0 :> (right - left) @@ 1 :> (down - up))
           /\ rect' = keep_in_bounds(moved, mask_size)
    /\ pressed_keys' = keys
    /\ last_op' = "move"
    /\ UNCHANGED <<mask_size, enemies, player__enemies_collided>>
    /\ UNCHANGED <<strafer_vars, spinner_vars, health_vars, app_vars, rest_vars>>

\* update_enemies_collided counting every call, tracked enemy or not
Player_update_enemies_collided_every_call(enemy) ==
    /\ player__enemies_collided < MaxCollided
    /\ overlapping_enemies' = overlapping_enemies \cup {enemy}
    /\ player__enemies_collided' = player__enemies_collided + 1
    /\ pressed_keys' = {}
    /\ movement_vector' = (0 :> 0 @@ 1 :> 0)
    /\ last_op' = "update_enemies_collided"
    /\ enemy_collision_vector' = NoFlags
    /\ untracked_by_last_call' = {}
    /\ UNCHANGED <<rect, mask_size, enemies>>
    /\ UNCHANGED <<strafer_vars, spinner_vars, health_vars, app_vars, rest_vars>>

\* Player.update_enemies_collided
Player_update_enemies_collided(enemy) ==
    /\ IF enemy \notin overlapping_enemies
       THEN /\ player__enemies_collided < MaxCollided
            /\ overlapping_enemies' = overlapping_enemies \cup {enemy}
            /\ player__enemies_collided' = player__enemies_collided + 1
       ELSE UNCHANGED <<overlapping_enemies, player__enemies_collided>>
    /\ pressed_keys' = {}
    /\ movement_vector' = (0 :> 0 @@ 1 :> 0)
    /\ last_op' = "update_enemies_collided"
    /\ enemy_collision_vector' = NoFlags
    /\ untracked_by_last_call' = {}
    /\ UNCHANGED <<rect, mask_size, enemies>>
    /\ UNCHANGED <<strafer_vars, spinner_vars, health_vars, app_vars, rest_vars>>

\* an enemy sprite moves
EnemyMoves(enemy, pos) ==
    /\ ~enemies[enemy].is_dead
    /\ pos # enemies[enemy].pos
    /\ enemies' = [enemies EXCEPT ![enemy].pos = pos]
    /\ pressed_keys' = {}
    /\ movement_vector' = (0 :> 0 @@ 1 :> 0)
    /\ last_op' = "enemy_moves"
    /\ enemy_collision_vector' = NoFlags
    /\ untracked_by_last_call' = {}
    /\ UNCHANGED <<rect, mask_size, overlapping_enemies, player__enemies_collided>>
    /\ UNCHANGED <<strafer_vars, spinner_vars, health_vars, app_vars, rest_vars>>

\* an enemy sprite loses its last health
EnemyDies(enemy) ==
    /\ ~enemies[enemy].is_dead
    /\ enemies' = [enemies EXCEPT ![enemy].is_dead = TRUE]
    /\ pressed_keys' = {}
    /\ movement_vector' = (0 :> 0 @@ 1 :> 0)
    /\ last_op' = "enemy_dies"
    /\ enemy_collision_vector' = NoFlags
    /\ untracked_by_last_call' = {}
    /\ UNCHANGED <<rect, mask_size, overlapping_enemies, player__enemies_collided>>
    /\ UNCHANGED <<strafer_vars, spinner_vars, health_vars, app_vars, rest_vars>>

PlayerInit ==
    /\ InitStrafer(CHOOSE height \in GruntHeights : TRUE, TRUE)
    /\ player__vertical_half = "bottom"
    /\ InitSpinner
    /\ \E shape \in PlayerShapes : InitPlayer(shape)
    /\ IdleHealth
    /\ IdleApp
    /\ IdleRest
    /\ last_op = "init"

PlayerNext ==
    \/ Player_get_enemy_collision_vector
    \/ \E keys \in KeySnapshots : Player_move(keys)
    \/ \E enemy \in EnemyIds : Player_update_enemies_collided(enemy)
    \/ \E enemy \in EnemyIds, pos \in EnemyPoints : EnemyMoves(enemy, pos)
    \/ \E enemy \in EnemyIds : EnemyDies(enemy)

SpecPlayer == PlayerInit /\ [][PlayerNext]_vars

(***************************************************************************)
(* Properties of the Player's collision tracking                           *)
(***************************************************************************)
\* the flags one enemy's intersection point sets when each threshold is 45% of
\* the box extent of its own axis
FlagsByExtent(collide_point, size) ==
    [direction \in 0..3 |->
        IF \/ direction = 0 /\ 100 * collide_point[1] < THRESHOLD_PERCENT * size[1]
           \/ direction = 1 /\ 100 * (size[1] - collide_point[1]) < THRESHOLD_PERCENT * size[1]
           \/ direction = 2 /\ 100 * collide_point[0] < THRESHOLD_PERCENT * size[0]
           \/ direction = 3 /\ 100 * (size[0] - collide_point[0]) < THRESHOLD_PERCENT * size[0]
        THEN 1
        ELSE 0]

\* C8: for the tracked, live, intersecting enemies, get_enemy_collision_vector sets
\* left / right iff a point is within 45% of the width from that edge and top /
\* bottom iff a point is within 45% of the height from that edge, for every box
\* shape including W # H.
C8_FlagsByOwnExtent ==
    last_op = "get_enemy_collision_vector" =>
        \A direction \in 0..3 :
            enemy_collision_vector[direction] = 1 <=>
                \E enemy \in overlapping_enemies :
                    FlagsByExtent(collide_mask(rect, mask_size, enemies[enemy].pos),
                                  mask_size)[direction] = 1

\* the displacement of the pressed direction keys whose flag is not set
Displacement(keys, blocked) ==
    LET step(key, direction) == IF key \in keys /\ blocked[direction] # 1 THEN DEFAULT_SPEED ELSE 0
    IN  (0 :> (step("K_RIGHT", 3) - step("K_LEFT", 2)) @@
         1 :> (step("K_DOWN", 1) - step("K_UP", 0)))

\* enemy is tracked, alive and intersects the player at a point that sets the flag
BlocksDirection(enemy, direction) ==
    /\ enemy \in overlapping_enemies
    /\ ~enemies[enemy].is_dead
    /\ collide_mask(rect, mask_size, enemies[enemy].pos) # None
    /\ check_directions(NoFlags, collide_mask(rect, mask_size, enemies[enemy].pos),
                        mask_size)[direction] = 1

\* C9: when move is called with an empty tracked-overlap set no direction is
\* blocked and every pressed direction key displaces the player by
\* movement_speed, whatever overlaps the player untracked; a direction is
\* suppressed only when its flag was set by an enemy that was already tracked.
C9_OnlyTrackedOverlapsBlock ==
    [][last_op' = "move" =>
          /\ overlapping_enemies = {} =>
                /\ enemy_collision_vector' = NoFlags
                /\ movement_vector' = Displacement(pressed_keys', NoFlags)
          /\ \A direction \in 0..3 :
                enemy_collision_vector'[direction] = 1 =>
                    \E enemy \in EnemyIds : BlocksDirection(enemy, direction)
          /\ movement_vector' = Displacement(pressed_keys', enemy_collision_vector')
          /\ rect' = keep_in_bounds([x |-> rect.x + movement_vector'[0],
                                     y |-> rect.y + movement_vector'[1]], mask_size)]_vars

\* a move to the right from the left edge with nothing tracked, while a live,
\* unregistered enemy overlapped the right zone of the player's box
C9_Witness ==
    /\ last_op = "move"
    /\ pressed_keys = {"K_RIGHT"}
    /\ overlapping_enemies = {}
    /\ untracked_by_last_call = {}
    /\ FieldWidth - mask_size[0] >= 2 * DEFAULT_SPEED
    /\ rect.x = DEFAULT_SPEED
    /\ movement_vector = (0 :> DEFAULT_SPEED @@ 1 :> 0)
    /\ \E enemy \in EnemyIds :
          LET before == collide_mask([x |-> 0, y |-> rect.y], mask_size, enemies[enemy].pos)
          IN  /\ ~enemies[enemy].is_dead
              /\ before # None
              /\ check_directions(NoFlags, before, mask_size)[3] = 1

\* C10: after a call of get_enemy_collision_vector no tracked enemy is dead or
\* without intersection with the player, and every flag returned is owed to an
\* enemy that is still tracked (an enemy untracked in the call sets no flag).
C10_UntrackedEnemiesSetNoFlag ==
    [][last_op' \in {"move", "get_enemy_collision_vector"} =>
          /\ \A enemy \in overlapping_enemies' :
                /\ ~enemies[enemy].is_dead
                /\ collide_mask(rect, mask_size, enemies[enemy].pos) # None
          /\ \A direction \in 0..3 :
                enemy_collision_vector'[direction] = 1 =>
                    \E enemy \in overlapping_enemies' :
                        check_directions(NoFlags,
                                         collide_mask(rect, mask_size, enemies[enemy].pos),
                                         mask_size)[direction] = 1]_vars

\* a call that untracked a dead enemy lying in the left zone of the player's box
\* and kept another enemy: the left flag is clear, another flag is set
C10_Witness ==
    /\ last_op = "get_enemy_collision_vector"
    /\ overlapping_enemies # {}
    /\ enemy_collision_vector[2] = 0
    /\ \E direction \in 0..3 : enemy_collision_vector[direction] = 1
    /\ \E enemy \in untracked_by_last_call :
          LET point == collide_mask(rect, mask_size, enemies[enemy].pos)
          IN  /\ enemies[enemy].is_dead
              /\ point # None
              /\ check_directions(NoFlags, point, mask_size)[2] = 1

\* C11: player__enemies_collided goes up by one exactly when an enemy enters
\* overlapping_enemies, so once per continuous tracked period: a call of
\* update_enemies_collided for an enemy already tracked changes neither the set
\* nor the counter, a call for an enemy not tracked adds it and counts it, and
\* no other operation moves the counter (an enemy is counted again only after
\* get_enemy_collision_vector untracked it).
C11_CountedOncePerTrackedPeriod ==
    [][/\ player__enemies_collided' - player__enemies_collided
              = Cardinality(overlapping_enemies' \ overlapping_enemies)
       /\ \A enemy \in EnemyIds :
             Player_update_enemies_collided(enemy) =>
                 IF enemy \in overlapping_enemies
                 THEN UNCHANGED <<overlapping_enemies, player__enemies_collided>>
                 ELSE /\ overlapping_enemies' = overlapping_enemies \cup {enemy}
                      /\ player__enemies_collided' = player__enemies_collided + 1]_vars

\* an enemy is tracked by the call just made and the counter is at its second
\* tracked period, one enemy having been untracked in between
C11_Witness ==
    /\ last_op = "update_enemies_collided"
    /\ player__enemies_collided = 2
    /\ Cardinality(overlapping_enemies) = 1

(***************************************************************************)
(* Player health: take_damage, heal, on_death                              *)
(***************************************************************************)

Damages == 1..MaxDamage
Heals == 1..MaxHeal

\* is_dead
Player_is_dead(h) == h <= 0

\* heal letting the health pass max_health
healed_unclamped(h, amount, max) == h + amount

\* Player.heal: the health after the upgrade, held at max_health
healed(h, amount, max) ==
    IF h + amount > max THEN max ELSE h + amount

\* Player.on_death: an invincible player is put back at one health and stays
\* in its groups; otherwise the sprite's own on_death removes it from every
\* group (kill)
on_death_health(h, invincible) == IF invincible THEN 1 ELSE h
on_death_groups(groups, invincible) == IF invincible THEN groups ELSE {}

\* the sprite's take_damage called through super(): the health is lowered and a
\* dead sprite runs its death effects
damaged_health(h, damage, invincible) ==
    IF Player_is_dead(h - damage) THEN on_death_health(h - damage, invincible)
    ELSE h - damage
damaged_groups(groups, h, damage, invincible) ==
    IF Player_is_dead(h - damage) THEN on_death_groups(groups, invincible)
    ELSE groups

\* Player.take_damage (the time between hits and the hit animation are left out)
Player_take_damage(damage) ==
    /\ IF PLAYER_INVINCIBLE
       THEN UNCHANGED <<health, player_groups, event_queue, player__curr_health,
                        player__health_lost>>
       ELSE /\ player__health_lost + damage <= MaxHealthLost
            /\ player__health_lost' = player__health_lost + damage
            /\ health' = damaged_health(health, damage, player_invincible)
            /\ player_groups' = damaged_groups(player_groups, health, damage,
                                               player_invincible)
            /\ player__curr_health' = health'
            /\ event_queue' = IF Player_is_dead(health') /\ ~player_invincible
                              THEN Append(event_queue, "PLAYER_DEATH")
                              ELSE event_queue
    /\ last_op' = "take_damage"
    /\ UNCHANGED <<max_health, player__health_gained, player_invincible,
                   PLAYER_INVINCIBLE>>
    /\ UNCHANGED <<strafer_vars, spinner_vars, player_vars, app_vars, rest_vars>>

\* Player.heal (the heal animation is left out)
Player_heal(amount) ==
    /\ player__health_gained + amount <= MaxHealthGained
    /\ health' = healed(health, amount, max_health)
    /\ player__curr_health' = health'
    /\ player__health_gained' = player__health_gained + amount
    /\ last_op' = "heal"
    /\ UNCHANGED <<max_health, player_groups, event_queue, player__health_lost,
                   player_invincible, PLAYER_INVINCIBLE>>
    /\ UNCHANGED <<strafer_vars, spinner_vars, player_vars, app_vars, rest_vars>>

HealthInit ==
    /\ InitStrafer(CHOOSE height \in GruntHeights : TRUE, TRUE)
    /\ player__vertical_half = "bottom"
    /\ InitSpinner
    /\ IdlePlayer
    /\ \E easy_mode \in BOOLEAN, invincible \in BOOLEAN, debug_invincible \in BOOLEAN :
          InitHealth(easy_mode, invincible, debug_invincible)
    /\ IdleApp
    /\ IdleRest
    /\ last_op = "init"

HealthNext ==
    \/ \E damage \in Damages : Player_take_damage(damage)
    \/ \E amount \in Heals : Player_heal(amount)

SpecHealth == HealthInit /\ [][HealthNext]_vars

(***************************************************************************)
(* Properties of the player's health                                       *)
(***************************************************************************)

\* C12: the death effects happen once: at most one PLAYER_DEATH event is ever
\* posted, and a take_damage call on a player whose health is already at or
\* below zero changes no state and posts no event.
C12_DeathEffectsOnce ==
    [][/\ Len(event_queue') <= 1
       /\ (last_op' = "take_damage" /\ Player_is_dead(health)) =>
              UNCHANGED <<health, player_groups, event_queue, player__curr_health,
                          player__health_lost>>]_vars

\* C13: after every sequence of heal and take_damage calls the health is at
\* most max_health and the player__curr_health stat is the health.
C13_HealthWithinMaxAndReported ==
    /\ health <= max_health
    /\ player__curr_health = health

\* a heal of two on a player that had lost one: the health is held at
\* max_health and reported
C13_Witness ==
    /\ last_op = "heal"
    /\ player__health_lost = 1
    /\ player__health_gained = 2
    /\ health = max_health
    /\ player__curr_health = max_health

(***************************************************************************)
(* main and the loading screen                                             *)
(***************************************************************************)

GameStates == {"LOADING_SCREEN", "MAIN_MENU", "CREDITS", "HOW_TO_PLAY", "SETTINGS",
               "GAMEPLAY", "DEATH_MENU", "QUIT"}
GAME_STATE_TO_LOOP_MAP ==
    [state \in GameStates |->
        CASE state = "LOADING_SCREEN" -> "loading_screen"
          [] state = "MAIN_MENU" -> "run_main_menu"
          [] state = "CREDITS" -> "run_credits_menu"
          [] state = "HOW_TO_PLAY" -> "run_how_to_play_menu"
          [] state = "SETTINGS" -> "run_settings_menu"
          [] state = "GAMEPLAY" -> "run_gameplay"
          [] state = "DEATH_MENU" -> "run_death_menu"
          [] state = "QUIT" -> "quit_game"]
\* the loop functions other than loading_screen and quit_game
MenuAndGameplayLoops ==
    {GAME_STATE_TO_LOOP_MAP[state] : state \in GameStates \ {"LOADING_SCREEN", "QUIT"}}
\* what the menu and gameplay loops hand back to main
StateLoopReturns == GameStates \ {"LOADING_SCREEN"}
\* what the menu and gameplay loops raise
StateLoopErrors == {"QuitOnLoadError", "Exception"}
Addresses == {MAX_OPENED_ADDRESS, MAX_LOADED_ADDRESS}

\* the states of the loading handshake by the position of the coroutine
WaitingForOpen == {"studio_logo", "wait_open", "sleep_open"}
WaitingForLoad == {"wait_load", "sleep_load"}
handshake_state(pc) ==
    CASE pc \in WaitingForOpen -> "WAITING_FOR_OPEN"
      [] pc \in WaitingForLoad -> "WAITING_FOR_LOAD"
      [] OTHER -> pc

\* the bundle of the control stats as they are after the step
osc_stats ==
    [control__max_init |-> control__max_init',
     control__max_quit |-> control__max_quit',
     control__menu_init |-> control__menu_init',
     control__record_music |-> control__record_music']

\* send_stats sending the bundle a second time when the first did not arrive
send_stats_retrying ==
    \E delivered \in BOOLEAN :
        /\ sent_bundles' = IF delivered THEN Append(sent_bundles, osc_stats)
                           ELSE Append(Append(sent_bundles, osc_stats), osc_stats)
        /\ sink_received' = Append(sink_received, osc_stats)

\* StatTracker.send_stats: the bundle is handed to the OSC client once;
\* delivered: the datagram reaches Max (the sink gives no acknowledgment)
send_stats ==
    \E delivered \in BOOLEAN :
        /\ sent_bundles' = Append(sent_bundles, osc_stats)
        /\ sink_received' = IF delivered THEN Append(sink_received, osc_stats)
                            ELSE sink_received

close_max_application ==
    /\ control__max_quit' = IF ~DISABLE_OPENING_MAX_APPLICATION THEN 1
                            ELSE control__max_quit
    /\ control__record_music' = 0

quit_game ==
    /\ control__menu_init' = 0
    /\ control__max_init' = control__max_init - 1
    /\ close_max_application
    /\ send_stats

\* the end of an iteration that goes on after a None
end_of_iteration_past_none(returned) ==
    /\ next_state' = returned
    /\ main_loop' = main_loop
    /\ main_pc' = IF main_loop' THEN "event_loop" ELSE "exited"
    /\ exception' = exception

\* the rest of an iteration of main's loop once the state loop has returned,
\* up to the test of the while
end_of_iteration(returned) ==
    /\ next_state' = returned
    /\ main_loop' = IF returned = "None" THEN FALSE ELSE main_loop
    /\ main_pc' = IF main_loop' THEN "event_loop" ELSE "exited"
    /\ exception' = exception

\* the handlers of main that end every exception with quit_game and let none
\* out of main
main_except_swallowing(raised) ==
    /\ quit_game
    /\ exception' = raised
    /\ main_pc' = "exited"
    /\ UNCHANGED <<next_state, main_loop>>

\* the except clauses of main: quit_game, and every exception but
\* QuitOnLoadError is raised again
main_except(raised) ==
    /\ quit_game
    /\ exception' = raised
    /\ main_pc' = IF raised = "QuitOnLoadError" THEN "exited" ELSE "raised"
    /\ UNCHANGED <<next_state, main_loop>>

\* main, up to the while
Main_main ==
    /\ main_pc = "main"
    /\ control__max_init' = control__max_init + 1
    /\ UNCHANGED <<control__max_quit, control__menu_init, control__record_music>>
    /\ send_stats
    /\ main_pc' = "event_loop"
    /\ last_op' = "main"
    /\ UNCHANGED <<main_loop, next_state, exception, loading_vars>>
    /\ UNCHANGED <<strafer_vars, spinner_vars, player_vars, health_vars, rest_vars>>

\* the for loop over pg.event.get(); quit_event: a QUIT event is in the queue
Main_event_loop(quit_event) ==
    /\ main_pc = "event_loop"
    /\ main_loop' = IF quit_event THEN FALSE ELSE main_loop
    /\ main_pc' = "transition_state"
    /\ last_op' = "event_loop"
    /\ UNCHANGED <<next_state, exception, loading_vars, stat_vars>>
    /\ UNCHANGED <<strafer_vars, spinner_vars, player_vars, health_vars, rest_vars>>

\* loading_screen called by transition_state, up to the studio logo:
\* open_max_application returns at once when opening Max is disabled; bind_ok:
\* create_serve_endpoint binds the port, otherwise it raises and the exception
\* leaves asyncio.run and loading_screen for the handlers of main
Main_loading_screen(bind_ok) ==
    /\ main_pc = "transition_state"
    /\ next_state \in GameStates
    /\ GAME_STATE_TO_LOOP_MAP[next_state] = "loading_screen"
    /\ IF DISABLE_OPENING_MAX_APPLICATION
       THEN /\ load_pc' = "READY"
            /\ end_of_iteration("MAIN_MENU")
            /\ UNCHANGED <<MAX_APP, transport, stat_vars>>
       ELSE IF bind_ok
            THEN /\ transport' = "open"
                 /\ MAX_APP' = "Popen"
                 /\ load_pc' = "studio_logo"
                 /\ main_pc' = "loading_screen"
                 /\ UNCHANGED <<main_loop, next_state, exception, stat_vars>>
            ELSE /\ main_except("OSError")
                 /\ UNCHANGED <<MAX_APP, transport, load_pc>>
    /\ last_op' = "loading_screen"
    /\ UNCHANGED <<MAX_OPEN, MAX_FULLY_LOADED, REASON_TEXT, percent, elapsed_load_time,
                   screentime, frames_since_yield, channel,
                   DISABLE_OPENING_MAX_APPLICATION>>
    /\ UNCHANGED <<strafer_vars, spinner_vars, player_vars, health_vars, rest_vars>>

\* one turn of the loop of show_studio_logo_screen: a frame is flipped and the
\* clock ticks, the coroutine does not suspend; after the last frame
\* wait_for_max_to_load starts with elapsed_load_time at 0
Load_show_studio_logo_screen ==
    /\ main_pc = "loading_screen"
    /\ load_pc = "studio_logo"
    /\ screentime' = screentime + 1
    /\ frames_since_yield' = frames_since_yield + 1
    /\ load_pc' = IF screentime' < LogoScreenFrames THEN "studio_logo" ELSE "wait_open"
    /\ elapsed_load_time' = 0
    /\ last_op' = "show_studio_logo_screen"
    /\ UNCHANGED <<MAX_APP, MAX_OPEN, MAX_FULLY_LOADED, REASON_TEXT, percent, transport,
                   channel, DISABLE_OPENING_MAX_APPLICATION, stat_vars, main_vars>>
    /\ UNCHANGED <<strafer_vars, spinner_vars, player_vars, health_vars, rest_vars>>

\* the test of the first while of wait_for_max_to_load, made also false by the
\* loaded flag being down
keep_waiting_for_open_until_loaded(opened) == ~opened \/ ~MAX_FULLY_LOADED

\* the test of the first while of wait_for_max_to_load
keep_waiting_for_open(opened) == ~opened

\* the test of the second while, given up once MAXIMUM_LOADTIME has gone by
keep_waiting_for_load_with_timeout(loaded) ==
    ~loaded /\ elapsed_load_time < MAXIMUM_LOADTIME

\* the test of the second while of wait_for_max_to_load
keep_waiting_for_load(loaded) == ~loaded

\* what the first while writes to REASON_TEXT and PERCENT_TEXT
reason_while_opening(elapsed, text) ==
    IF elapsed < MAXIMUM_LOADTIME THEN text ELSE BEYOND_LOADTIME_STR
percent_while_opening(elapsed) ==
    IF elapsed < MAXIMUM_LOADTIME THEN (elapsed * 100) \div MAXIMUM_LOADTIME ELSE 99

\* the first while of wait_for_max_to_load from its test to asyncio.sleep, or
\* to the second while once MAX_OPEN is up (the loading dots are left out)
Load_wait_for_max_to_open ==
    /\ main_pc = "loading_screen"
    /\ load_pc = "wait_open"
    /\ IF keep_waiting_for_open(MAX_OPEN)
       THEN /\ elapsed_load_time < MaxElapsedLoadTime
            /\ REASON_TEXT' = reason_while_opening(elapsed_load_time, REASON_TEXT)
            /\ percent' = percent_while_opening(elapsed_load_time)
            /\ frames_since_yield' = frames_since_yield + 1
            /\ elapsed_load_time' = elapsed_load_time + 1
            /\ load_pc' = "sleep_open"
       ELSE /\ REASON_TEXT' = MAX_LOAD_STR
            /\ percent' = 99
            /\ load_pc' = "wait_load"
            /\ UNCHANGED <<frames_since_yield, elapsed_load_time>>
    /\ last_op' = "wait_for_max_to_load"
    /\ UNCHANGED <<MAX_APP, MAX_OPEN, MAX_FULLY_LOADED, screentime, transport, channel,
                   DISABLE_OPENING_MAX_APPLICATION, stat_vars, main_vars>>
    /\ UNCHANGED <<strafer_vars, spinner_vars, player_vars, health_vars, rest_vars>>

\* the second while of wait_for_max_to_load from its test to asyncio.sleep; once
\* MAX_FULLY_LOADED is up the coroutine ends, the transport is closed,
\* loading_screen returns MAIN_MENU and main ends its iteration
Load_wait_for_max_to_load ==
    /\ main_pc = "loading_screen"
    /\ load_pc = "wait_load"
    /\ IF keep_waiting_for_load(MAX_FULLY_LOADED)
       THEN /\ elapsed_load_time < MaxElapsedLoadTime
            /\ frames_since_yield' = frames_since_yield + 1
            /\ elapsed_load_time' = elapsed_load_time + 1
            /\ load_pc' = "sleep_load"
            /\ UNCHANGED <<transport, main_vars>>
       ELSE /\ transport' = "closed"
            /\ load_pc' = "READY"
            /\ end_of_iteration("MAIN_MENU")
            /\ UNCHANGED <<frames_since_yield, elapsed_load_time>>
    /\ last_op' = "wait_for_max_to_load"
    /\ UNCHANGED <<MAX_APP, MAX_OPEN, MAX_FULLY_LOADED, REASON_TEXT, percent, screentime,
                   channel, DISABLE_OPENING_MAX_APPLICATION, stat_vars>>
    /\ UNCHANGED <<strafer_vars, spinner_vars, player_vars, health_vars, rest_vars>>

\* await asyncio.sleep(1) is over: the coroutine was suspended and goes back to
\* the test of its while
Load_asyncio_sleep ==
    /\ main_pc = "loading_screen"
    /\ load_pc \in {"sleep_open", "sleep_load"}
    /\ load_pc' = IF load_pc = "sleep_open" THEN "wait_open" ELSE "wait_load"
    /\ frames_since_yield' = 0
    /\ last_op' = "asyncio.sleep"
    /\ UNCHANGED <<MAX_APP, MAX_OPEN, MAX_FULLY_LOADED, REASON_TEXT, percent,
                   elapsed_load_time, screentime, transport, channel,
                   DISABLE_OPENING_MAX_APPLICATION, stat_vars, main_vars>>
    /\ UNCHANGED <<strafer_vars, spinner_vars, player_vars, health_vars, rest_vars>>

\* Max sends a readiness datagram, each address once, in either order
Max_sends(address) ==
    /\ MAX_APP = "Popen"
    /\ transport = "open"
    /\ address \notin channel
    /\ ~(IF address = MAX_OPENED_ADDRESS THEN MAX_OPEN ELSE MAX_FULLY_LOADED)
    /\ channel' = channel \cup {address}
    /\ last_op' = "Max"
    /\ UNCHANGED <<MAX_APP, MAX_OPEN, MAX_FULLY_LOADED, REASON_TEXT, percent,
                   elapsed_load_time, screentime, frames_since_yield, transport, load_pc,
                   DISABLE_OPENING_MAX_APPLICATION, stat_vars, main_vars>>
    /\ UNCHANGED <<strafer_vars, spinner_vars, player_vars, health_vars, rest_vars>>

\* max_opened_handler, run by the event loop while the coroutine sleeps
max_opened_handler ==
    /\ load_pc \in {"sleep_open", "sleep_load"}
    /\ MAX_OPENED_ADDRESS \in channel
    /\ channel' = channel \ {MAX_OPENED_ADDRESS}
    /\ MAX_OPEN' = TRUE
    /\ last_op' = "max_opened_handler"
    /\ UNCHANGED <<MAX_APP, MAX_FULLY_LOADED, REASON_TEXT, percent, elapsed_load_time,
                   screentime, frames_since_yield, transport, load_pc,
                   DISABLE_OPENING_MAX_APPLICATION, stat_vars, main_vars>>
    /\ UNCHANGED <<strafer_vars, spinner_vars, player_vars, health_vars, rest_vars>>

\* max_loaded_handler dropping a loaded signal that comes before the opened one
max_loaded_handler_after_open ==
    /\ load_pc \in {"sleep_open", "sleep_load"}
    /\ MAX_LOADED_ADDRESS \in channel
    /\ channel' = channel \ {MAX_LOADED_ADDRESS}
    /\ MAX_FULLY_LOADED' = MAX_OPEN
    /\ last_op' = "max_loaded_handler"
    /\ UNCHANGED <<MAX_APP, MAX_OPEN, REASON_TEXT, percent, elapsed_load_time,
                   screentime, frames_since_yield, transport, load_pc,
                   DISABLE_OPENING_MAX_APPLICATION, stat_vars, main_vars>>
    /\ UNCHANGED <<strafer_vars, spinner_vars, player_vars, health_vars, rest_vars>>

\* max_loaded_handler, run by the event loop while the coroutine sleeps
max_loaded_handler ==
    /\ load_pc \in {"sleep_open", "sleep_load"}
    /\ MAX_LOADED_ADDRESS \in channel
    /\ channel' = channel \ {MAX_LOADED_ADDRESS}
    /\ MAX_FULLY_LOADED' = TRUE
    /\ last_op' = "max_loaded_handler"
    /\ UNCHANGED <<MAX_APP, MAX_OPEN, REASON_TEXT, percent, elapsed_load_time,
                   screentime, frames_since_yield, transport, load_pc,
                   DISABLE_OPENING_MAX_APPLICATION, stat_vars, main_vars>>
    /\ UNCHANGED <<strafer_vars, spinner_vars, player_vars, health_vars, rest_vars>>

\* transition_state calling a menu loop or the gameplay loop, which returns the
\* next state
Main_state_loop(returned) ==
    /\ main_pc = "transition_state"
    /\ next_state \in GameStates
    /\ GAME_STATE_TO_LOOP_MAP[next_state] \in MenuAndGameplayLoops
    /\ end_of_iteration(returned)
    /\ last_op' = GAME_STATE_TO_LOOP_MAP[next_state]
    /\ UNCHANGED <<loading_vars, stat_vars>>
    /\ UNCHANGED <<strafer_vars, spinner_vars, player_vars, health_vars, rest_vars>>

\* transition_state calling a menu loop or the gameplay loop, which raises
Main_state_loop_raises(raised) ==
    /\ main_pc = "transition_state"
    /\ next_state \in GameStates
    /\ GAME_STATE_TO_LOOP_MAP[next_state] \in MenuAndGameplayLoops
    /\ main_except(raised)
    /\ last_op' = GAME_STATE_TO_LOOP_MAP[next_state]
    /\ UNCHANGED loading_vars
    /\ UNCHANGED <<strafer_vars, spinner_vars, player_vars, health_vars, rest_vars>>

\* transition_state calling quit_game, which returns None
Main_quit_game ==
    /\ main_pc = "transition_state"
    /\ next_state \in GameStates
    /\ GAME_STATE_TO_LOOP_MAP[next_state] = "quit_game"
    /\ quit_game
    /\ end_of_iteration("None")
    /\ last_op' = "quit_game"
    /\ UNCHANGED loading_vars
    /\ UNCHANGED <<strafer_vars, spinner_vars, player_vars, health_vars, rest_vars>>

\* transition_state calling quit_game, which raises after its stat updates,
\* before a bundle leaves: the except Exception clause of main calls quit_game
\* again and raises
Main_quit_game_raises ==
    /\ main_pc = "transition_state"
    /\ next_state \in GameStates
    /\ GAME_STATE_TO_LOOP_MAP[next_state] = "quit_game"
    /\ control__menu_init' = 0
    /\ control__max_init' = (control__max_init - 1) - 1
    /\ close_max_application
    /\ send_stats
    /\ exception' = "Exception"
    /\ main_pc' = "raised"
    /\ last_op' = "quit_game"
    /\ UNCHANGED <<next_state, main_loop>>
    /\ UNCHANGED loading_vars
    /\ UNCHANGED <<strafer_vars, spinner_vars, player_vars, health_vars, rest_vars>>

MainInit ==
    /\ InitStrafer(CHOOSE height \in GruntHeights : TRUE, TRUE)
    /\ player__vertical_half = "bottom"
    /\ InitSpinner
    /\ IdlePlayer
    /\ InitHealth(FALSE, FALSE, FALSE)
    /\ \E disabled \in BOOLEAN : InitApp(disabled)
    /\ IdleRest
    /\ last_op = "init"

LoadNext ==
    \/ Load_show_studio_logo_screen
    \/ Load_wait_for_max_to_open
    \/ Load_wait_for_max_to_load
    \/ Load_asyncio_sleep
    \/ max_opened_handler
    \/ max_loaded_handler

MainNext ==
    \/ Main_main
    \/ \E quit_event \in BOOLEAN : Main_event_loop(quit_event)
    \/ \E bind_ok \in BOOLEAN : Main_loading_screen(bind_ok)
    \/ LoadNext
    \/ \E address \in Addresses : Max_sends(address)
    \/ \E returned \in StateLoopReturns : Main_state_loop(returned)
    \/ \E raised \in StateLoopErrors : Main_state_loop_raises(raised)
    \/ Main_quit_game
    \/ Main_quit_game_raises

SpecMain == MainInit /\ [][MainNext]_vars

\* the event loop of asyncio runs the coroutine and the handlers whenever they
\* can go on; nothing is asked of Max
SpecMainFair ==
    /\ MainInit
    /\ [][MainNext]_vars
    /\ WF_vars(Load_show_studio_logo_screen)
    /\ WF_vars(Load_wait_for_max_to_open)
    /\ WF_vars(Load_wait_for_max_to_load)
    /\ WF_vars(Load_asyncio_sleep)
    /\ WF_vars(max_opened_handler)
    /\ WF_vars(max_loaded_handler)

(***************************************************************************)
(* Properties of the loading handshake and of main                         *)
(***************************************************************************)

\* a flag that is up stays up
FlagsLatched ==
    /\ MAX_OPEN => MAX_OPEN'
    /\ MAX_FULLY_LOADED => MAX_FULLY_LOADED'

\* a wait is left only with its flag up, whatever the elapsed time
WaitEndsOnFlagOnly ==
    /\ (load_pc \in WaitingForOpen /\ ~MAX_OPEN) => load_pc' \in WaitingForOpen
    /\ (load_pc \in WaitingForLoad /\ ~MAX_FULLY_LOADED) => load_pc' \in WaitingForLoad

\* C14 as stated: loading_screen returns MAIN_MENU (READY) only with MAX_OPEN
\* and MAX_FULLY_LOADED both up, elapsed time alone never ends a wait, and the
\* flags are never put down again.
C14_ReadyOnlyWithBothFlags ==
    [][/\ load_pc' = "READY" => (MAX_OPEN' /\ MAX_FULLY_LOADED')
       /\ WaitEndsOnFlagOnly
       /\ FlagsLatched]_vars

\* C14: unless DISABLE_OPENING_MAX_APPLICATION is set, loading_screen returns
\* MAIN_MENU (READY) only with MAX_OPEN and MAX_FULLY_LOADED both up; elapsed
\* time alone never ends a wait, and the flags are never put down again.  With
\* the switch set it returns MAIN_MENU at once, both flags down.
C14_ReadyOnlyWithBothFlagsUnlessDisabled ==
    [][/\ IF DISABLE_OPENING_MAX_APPLICATION
          THEN load_pc' \in {"NOT_STARTED", "READY"} /\ ~MAX_OPEN' /\ ~MAX_FULLY_LOADED'
          ELSE load_pc' = "READY" => (MAX_OPEN' /\ MAX_FULLY_LOADED')
       /\ WaitEndsOnFlagOnly
       /\ FlagsLatched]_vars

\* READY after a wait longer than MAXIMUM_LOADTIME, both flags up
C14_Witness ==
    /\ ~DISABLE_OPENING_MAX_APPLICATION
    /\ load_pc = "READY"
    /\ next_state = "MAIN_MENU"
    /\ elapsed_load_time > MAXIMUM_LOADTIME
    /\ MAX_OPEN
    /\ MAX_FULLY_LOADED

\* the order of the states of the handshake
HandshakeOrder ==
    {<<"NOT_STARTED", "WAITING_FOR_OPEN">>, <<"WAITING_FOR_OPEN", "WAITING_FOR_LOAD">>,
     <<"WAITING_FOR_LOAD", "READY">>}

\* C15: with the signals received, the handshake goes through WAITING_FOR_OPEN,
\* WAITING_FOR_LOAD and READY in this order; the first poll made with MAX_OPEN
\* up, and no poll before, leaves WAITING_FOR_OPEN, the first poll made with
\* MAX_FULLY_LOADED up, and no poll before, reaches READY; and when the event
\* loop keeps running the polls, a handshake with both flags up reaches READY.
C15_StatesInOrderUntilReady ==
    /\ [][~DISABLE_OPENING_MAX_APPLICATION =>
            /\ \/ handshake_state(load_pc') = handshake_state(load_pc)
               \/ <<handshake_state(load_pc), handshake_state(load_pc')>> \in HandshakeOrder
            /\ (load_pc = "wait_open" /\ load_pc' # load_pc) =>
                   (load_pc' = "wait_load" <=> MAX_OPEN)
            /\ (load_pc = "wait_load" /\ load_pc' # load_pc) =>
                   (load_pc' = "READY" <=> MAX_FULLY_LOADED)]_vars
    /\ (load_pc \in (WaitingForOpen \cup WaitingForLoad) /\ MAX_OPEN /\ MAX_FULLY_LOADED)
           ~> (load_pc = "READY")

\* READY reached through both waits, every signal sent handled
C15_Witness ==
    /\ ~DISABLE_OPENING_MAX_APPLICATION
    /\ load_pc = "READY"
    /\ last_op = "wait_for_max_to_load"
    /\ REASON_TEXT = MAX_LOAD_STR
    /\ elapsed_load_time >= 2
    /\ channel = {}

\* C16: a signal is latched whenever it is delivered: a datagram in flight stays
\* in flight until its handler puts its flag up, and a flag that is up stays up;
\* with the loaded flag up before the opened one the handshake stays in
\* WAITING_FOR_OPEN as long as MAX_OPEN is down, and once MAX_OPEN is up it goes
\* on to READY at the poll of the second wait, with no further loaded signal.
C16_SignalsLatchedInAnyOrder ==
    [][/\ FlagsLatched
       /\ \A address \in channel :
             \/ address \in channel'
             \/ IF address = MAX_OPENED_ADDRESS THEN MAX_OPEN' ELSE MAX_FULLY_LOADED'
       /\ (load_pc \in WaitingForOpen /\ MAX_FULLY_LOADED /\ ~MAX_OPEN) =>
              (load_pc' \in WaitingForOpen /\ MAX_FULLY_LOADED')
       /\ (load_pc = "wait_load" /\ MAX_FULLY_LOADED /\ load_pc' # load_pc) =>
              (load_pc' = "READY" /\ channel' = channel)]_vars

\* a poll of the first wait made with the loaded flag up and the opened flag
\* down: the handshake rendered a frame and sleeps in WAITING_FOR_OPEN
C16_Witness ==
    /\ last_op = "wait_for_max_to_load"
    /\ load_pc = "sleep_open"
    /\ MAX_FULLY_LOADED
    /\ ~MAX_OPEN

\* C17: a poll of WAITING_FOR_OPEN shows the "taking longer than usual" message
\* exactly when elapsed_load_time is greater than MAXIMUM_LOADTIME (at 30 the
\* waiting message is still shown); the message is never shown in
\* WAITING_FOR_LOAD, and showing it does not end the wait.
C17_BeyondMessageAboveMaximum ==
    [][/\ (load_pc = "wait_open" /\ load_pc' = "sleep_open") =>
              (REASON_TEXT' = BEYOND_LOADTIME_STR <=> elapsed_load_time > MAXIMUM_LOADTIME)
       /\ load_pc' \in WaitingForLoad => REASON_TEXT' # BEYOND_LOADTIME_STR
       /\ (load_pc = "wait_open" /\ ~MAX_OPEN /\ REASON_TEXT' = BEYOND_LOADTIME_STR) =>
              load_pc' = "sleep_open"]_vars

\* C18: from the launch of Max until READY at most one frame is rendered
\* between two suspensions of the coroutine: a poll tests its flag, renders one
\* frame and yields.
C18_OneFramePerYield ==
    load_pc \in (WaitingForOpen \cup WaitingForLoad) => frames_since_yield <= 1

\* quit_game has run once after main's start: the control stats are those of
\* the teardown and the bundle sent last carries them
TeardownRan ==
    /\ control__max_init = 0
    /\ control__menu_init = 0
    /\ control__record_music = 0
    /\ ~DISABLE_OPENING_MAX_APPLICATION => control__max_quit = 1
    /\ Len(sent_bundles) = 2
    /\ sent_bundles[2] = [control__max_init |-> control__max_init,
                          control__max_quit |-> control__max_quit,
                          control__menu_init |-> control__menu_init,
                          control__record_music |-> control__record_music]

\* C19: when the readiness channel fails to bind the error aborts the
\* handshake: Max is never launched, no waiting state is entered, MAIN_MENU is
\* never returned, and main runs its teardown and raises the error again.
C19_BindFailureAbortsStartup ==
    exception = "OSError" =>
        /\ MAX_APP = "None"
        /\ transport = "none"
        /\ load_pc = "NOT_STARTED"
        /\ next_state = "LOADING_SCREEN"
        /\ ~MAX_OPEN /\ ~MAX_FULLY_LOADED
        /\ main_pc = "raised"
        /\ TeardownRan

\* create_serve_endpoint has raised in the call of loading_screen
C19_Witness ==
    /\ last_op = "loading_screen"
    /\ exception = "OSError"
    /\ control__max_quit = 1

\* C20: once main's event loop has seen a QUIT event (main_loop is down at the
\* call of transition_state) no state loop is called any more, and main is
\* left only after quit_game has run.
C20_QuitShortCircuitsToTeardown ==
    [][(main_pc = "transition_state" /\ ~main_loop) =>
          /\ last_op' \notin ({"loading_screen"} \cup MenuAndGameplayLoops)
          /\ main_pc' = "exited" => TeardownRan']_vars

\* C21: an exception other than QuitOnLoadError raised while main runs a state,
\* the teardown of the QUIT state included, ends main raised again, after
\* quit_game has run once in all: control__max_init is back at 0 and one
\* closing bundle has followed the opening one.
C21_ErrorTearsDownOnceAndRaises ==
    exception \notin {"none", "QuitOnLoadError"} =>
        /\ main_pc = "raised"
        /\ TeardownRan

Times == {0, 61001, 3661001}
\* the health a player is created with
PlayerMaxHealths == {DEFAULT_HEALTH, EASY_MODE_HEALTH}
\* the weapons of the player, as indices of weapon__shots_per_weapon
WeaponIndices == 0..1

\* Stat.__add__
Stat_add(value, other) == value + other
\* AvgStat.add
AvgStat_add(stat, val) == [sum |-> stat.sum + val, count |-> stat.count + 1]
\* ListStat.add_at_index
ListStat_add_at_index(list, index, val) == [list EXCEPT ![index] = @ + val]
\* ListStat.update with two values
ListStat_update(list, val0, val1) == [list EXCEPT ![0] = val0, ![1] = val1]

\* init_new_playthrough that carries the score over
reset_score_keeping(score) == score
\* the score init_new_playthrough leaves
reset_score(score) == 0

\* StatTracker.init_new_playthrough
StatTracker_init_new_playthrough(start_time_ms, player_max_health) ==
    /\ game__play_count < MaxPlayCount
    /\ start_time_ms >= game__time__total_played.total_ms
    /\ start_time' = start_time_ms
    /\ time_last_enemy_killed' = start_time_ms
    /\ control__game_init' = 0
    /\ game__score' = reset_score(game__score)
    /\ game__time__current_playthrough' = TimeStat(0)
    /\ player__position' = ListStat(2)
    /\ player__curr_speed' = 0
    /\ player__angle' = 0
    /\ player__rotation_amount' = 0
    /\ player__avg_shots_per_second' = AvgStat
    /\ player__accuracy' = <<0, 1>>
    /\ player__avg_time_between_kills' = AvgStat
    /\ player__max_health' = player_max_health
    /\ player__curr_health' = player_max_health
    /\ player__health_lost' = 0
    /\ player__near_misses' = 0
    /\ weapon__selected' = 0
    /\ weapon__total_shots_fired' = 0
    /\ weapon__shots_per_weapon' = ListStat(2)
    /\ enemies__num_on_screen' = 0
    /\ enemies__hit' = 0
    /\ enemies__killed' = 0
    /\ game__play_count' = Stat_add(game__play_count, 1)
    /\ last_call' = [start_time_ms |-> start_time_ms,
                     player_max_health |-> player_max_health,
                     score |-> game__score,
                     shots_fired |-> weapon__total_shots_fired,
                     health_lost |-> player__health_lost]
    /\ last_op' = "init_new_playthrough"
    /\ UNCHANGED game__time__total_played
    /\ UNCHANGED <<health, max_health, player_groups, event_queue, player__health_gained,
                   player_invincible, PLAYER_INVINCIBLE>>
    /\ UNCHANGED beside_tracker_vars

\* StatTracker.set_game_time; the clock does not run backwards
StatTracker_set_game_time(total_time_elapsed_ms) ==
    /\ game__play_count > 0
    /\ total_time_elapsed_ms >= game__time__total_played.total_ms
    /\ total_time_elapsed_ms >= start_time
    /\ game__time__current_playthrough' = TimeStat(total_time_elapsed_ms - start_time)
    /\ game__time__total_played' = TimeStat(total_time_elapsed_ms)
    /\ last_op' = "set_game_time"
    /\ UNCHANGED <<start_time, time_last_enemy_killed, control__game_init,
                   game__play_count, game__score, player__position, player__curr_speed,
                   player__angle, player__rotation_amount, player__avg_shots_per_second,
                   player__accuracy, player__avg_time_between_kills, player__max_health,
                   player__near_misses, weapon__selected, weapon__total_shots_fired,
                   weapon__shots_per_weapon, enemies__num_on_screen, enemies__hit,
                   enemies__killed, last_call>>
    /\ UNCHANGED <<health_vars, beside_tracker_vars>>

\* StatTracker.update_stats
StatTracker_update_stats ==
    /\ game__play_count > 0
    /\ player__accuracy' = IF weapon__total_shots_fired > 0
                           THEN <<enemies__hit * 100, weapon__total_shots_fired>>
                           ELSE player__accuracy
    /\ last_op' = "update_stats"
    /\ UNCHANGED <<start_time, time_last_enemy_killed, control__game_init,
                   game__play_count, game__time__total_played, game__score,
                   game__time__current_playthrough, player__position,
                   player__curr_speed, player__angle, player__rotation_amount,
                   player__avg_shots_per_second, player__avg_time_between_kills,
                   player__max_health, player__near_misses, weapon__selected,
                   weapon__total_shots_fired, weapon__shots_per_weapon,
                   enemies__num_on_screen, enemies__hit, enemies__killed, last_call>>
    /\ UNCHANGED <<health_vars, beside_tracker_vars>>

\* the stat operations of a playthrough's frame in which the player moves,
\* fires the weapon at index, kills an enemy with the shot and is passed by an
\* enemy's shot
Stats_played_frame(index) ==
    /\ game__play_count > 0
    /\ weapon__total_shots_fired < MaxShotsFired
    /\ control__game_init' = 1
    /\ player__position' = ListStat_update(player__position, 1, 1)
    /\ player__curr_speed' = DEFAULT_SPEED
    /\ player__angle' = 90
    /\ player__rotation_amount' = 0 - 1
    /\ weapon__selected' = index
    /\ weapon__total_shots_fired' = Stat_add(weapon__total_shots_fired, 1)
    /\ weapon__shots_per_weapon' = ListStat_add_at_index(weapon__shots_per_weapon, index, 1)
    /\ player__avg_shots_per_second' = AvgStat_add(player__avg_shots_per_second, 1)
    /\ enemies__num_on_screen' = 1
    /\ enemies__hit' = Stat_add(enemies__hit, 1)
    /\ enemies__killed' = Stat_add(enemies__killed, 1)
    /\ game__score' = Stat_add(game__score, 1)
    /\ player__avg_time_between_kills' =
           AvgStat_add(player__avg_time_between_kills,
                       game__time__total_played.total_ms - time_last_enemy_killed)
    /\ time_last_enemy_killed' = game__time__total_played.total_ms
    /\ player__near_misses' = Stat_add(player__near_misses, 1)
    /\ last_op' = "played_frame"
    /\ UNCHANGED <<start_time, game__play_count, game__time__total_played,
                   game__time__current_playthrough, player__accuracy,
                   player__max_health, last_call>>
    /\ UNCHANGED <<health_vars, beside_tracker_vars>>

StatsInit ==
    /\ InitStrafer(CHOOSE height \in GruntHeights : TRUE, TRUE)
    /\ player__vertical_half = "bottom"
    /\ InitSpinner
    /\ IdlePlayer
    /\ IdleHealth
    /\ IdleApp
    /\ IdleRest
    /\ last_op = "init"

StatsNext ==
    \/ \E start_time_ms \in Times, player_max_health \in PlayerMaxHealths :
           StatTracker_init_new_playthrough(start_time_ms, player_max_health)
    \/ \E total_time_elapsed_ms \in Times : StatTracker_set_game_time(total_time_elapsed_ms)
    \/ StatTracker_update_stats
    \/ \E index \in WeaponIndices : Stats_played_frame(index)
    \/ (game__play_count > 0 /\ player__health_lost = 0) /\ Player_take_damage(MaxDamage)

SpecStats == StatsInit /\ [][StatsNext]_vars

\* C24: every init_new_playthrough leaves each per-playthrough stat at its
\* initial value whatever it held before, the current and the maximum health at
\* the player_max_health it was given, game__play_count one higher, and
\* control__max_init and game__time__total_played as they were.
C24_PlaythroughStatsReset ==
    [][last_op' = "init_new_playthrough" =>
          /\ NewPlaythroughStats(last_call.start_time_ms, last_call.player_max_health)'
          /\ player__max_health' = last_call'.player_max_health
          /\ player__curr_health' = last_call'.player_max_health
          /\ player__health_lost' = 0
          /\ game__play_count' = game__play_count + 1
          /\ control__max_init' = control__max_init
          /\ game__time__total_played' = game__time__total_played]_vars

\* a second playthrough has been started over the stats the first one accumulated
C24_Witness ==
    /\ last_op = "init_new_playthrough"
    /\ game__play_count = 2
    /\ last_call.score > 0
    /\ last_call.shots_fired > 0
    /\ last_call.health_lost > 0
    /\ game__time__total_played.total_ms > 0
    /\ game__score = 0
    /\ player__curr_health = last_call.player_max_health


(***************************************************************************)
(* Projectile (projectiles.py): construction and the per-frame update.     *)
(***************************************************************************)
ProjectileClasses == {PlayerMusicNote, PlayerAccidental, EnemyQuarterRest, EnemyAccidental,
                      ColoredMusicNote("red"), ColoredMusicNote("green")}
\* the variant numbers tried on a class: every valid one and some on either side
VariantNumbers(cls) ==
    (0 - Len(cls.AVAILABLE_VARIANTS) - MaxVariantOvershoot)
        ..(cls.NUM_VARIANTS - 1 + MaxVariantOvershoot)
ProjectileSizes == 1..MaxProjectileSize
ProjectileSpeeds == 1..MaxProjectileSpeed
\* the angles of fire: along the axes, and along two diagonals, where move_ip
\* drops the fraction of the products
MovementAngles == {0, 45, 90, 180, 225, 270}
game_screen_rect == [left |-> 0, top |-> 0, width |-> ScreenRectWidth,
                     height |-> ScreenRectHeight]
\* pygame.Rect.right and pygame.Rect.bottom
Rect_right(bbox) == bbox.left + bbox.width
Rect_bottom(bbox) == bbox.top + bbox.height

\* tuple[index] of Python: negative indices count from the end
tuple_index_valid(tuple, index) == index >= 0 - Len(tuple) /\ index < Len(tuple)
tuple_getitem(tuple, index) == IF index < 0 THEN tuple[Len(tuple) + index + 1]
                               ELSE tuple[index + 1]

\* pg.image.load of the formatted IMAGE_FILE: the assets hold one note image
\* for each of the NUM_VARIANTS numbers and one image for each variant name
image_file_exists(cls, variant_number) ==
    \/ cls.AVAILABLE_VARIANTS # <<>>
    \/ variant_number \in 0..(cls.NUM_VARIANTS - 1)

\* what Projectile.__init__ raises for a class and a variant number, or "none"
construction_error(cls, variant_number) ==
    IF cls.COLOR # "None" /\ cls.COLOR \notin cls.AVAILABLE_COLORS
    THEN "AssetLoadError"
    ELSE IF cls.AVAILABLE_VARIANTS # <<>>
            /\ ~tuple_index_valid(cls.AVAILABLE_VARIANTS, variant_number)
         THEN "IndexError"
         ELSE IF ~image_file_exists(cls, variant_number)
              THEN "FileNotFoundError"
              ELSE "none"

\* Projectile.__init__, and the sprite groups the weapon that made the
\* projectile adds it to
Projectile_init(cls, center_position, size, damage_is_none, speed, speed_is_none, movement_angle, variant_number) ==
    /\ ~projectile.created
    /\ projectile_error = "none"
    /\ projectile_request' = [class |-> cls.name, color |-> cls.COLOR,
                              variant_number |-> variant_number,
                              num_variants |-> cls.NUM_VARIANTS,
                              available_colors |-> cls.AVAILABLE_COLORS]
    /\ projectile_error' = construction_error(cls, variant_number)
    /\ projectile' =
           IF projectile_error' # "none"
           THEN projectile
           ELSE [created |-> TRUE,
                 class |-> cls.name,
                 color |-> cls.COLOR,
                 variant_number |-> variant_number,
                 variant |-> IF cls.AVAILABLE_VARIANTS # <<>>
                             THEN tuple_getitem(cls.AVAILABLE_VARIANTS, variant_number)
                             ELSE "",
                 rect |-> [left |-> center_position[1] - (size \div 2),
                           top |-> center_position[2] - (size \div 2),
                           width |-> size, height |-> size],
                 starting_position |-> center_position,
                 damage |-> IF damage_is_none THEN cls.DEFAULT_DAMAGE ELSE MaxDamage,
                 movement_speed |-> IF speed_is_none THEN cls.DEFAULT_SPEED ELSE speed,
                 movement_angle |-> movement_angle,
                 groups |-> {"all_sprites", "projectiles"}]
    /\ last_op' = "Projectile.__init__"
    /\ UNCHANGED beside_projectile_vars

\* int(speed * math.cos(math.radians(angle))) and int(speed * math.sin(...))
\* for the angles of MovementAngles; int() drops the fraction towards zero
speed_cos(speed, angle) ==
    CASE angle = 0 -> speed
      [] angle = 45 -> (speed * COS_45_NUM) \div COS_45_DEN
      [] angle = 180 -> 0 - speed
      [] angle = 225 -> 0 - ((speed * COS_45_NUM) \div COS_45_DEN)
      [] OTHER -> 0
speed_sin(speed, angle) ==
    CASE angle = 45 -> (speed * COS_45_NUM) \div COS_45_DEN
      [] angle = 90 -> speed
      [] angle = 225 -> 0 - ((speed * COS_45_NUM) \div COS_45_DEN)
      [] angle = 270 -> 0 - speed
      [] OTHER -> 0
\* pygame.Rect.move_ip
Rect_move(bbox, x, y) == [bbox EXCEPT !.left = @ + x, !.top = @ + y]

\* the test of update with touching counted as outside
out_of_bounds_or_touching(bbox, screen) ==
    \/ bbox.left >= Rect_right(screen)
    \/ Rect_right(bbox) <= screen.left
    \/ bbox.top >= Rect_bottom(screen)
    \/ Rect_bottom(bbox) <= screen.top
\* the out_of_bounds test of update
out_of_bounds(bbox, screen) ==
    \/ bbox.left > Rect_right(screen)
    \/ Rect_right(bbox) < screen.left
    \/ bbox.top > Rect_bottom(screen)
    \/ Rect_bottom(bbox) < screen.top

\* the projectile is near enough to the screen for the model to follow it
within_reach(bbox) ==
    /\ bbox.left >= game_screen_rect.left - bbox.width - MaxOutside
    /\ bbox.left <= Rect_right(game_screen_rect) + MaxOutside
    /\ bbox.top >= game_screen_rect.top - bbox.height - MaxOutside
    /\ bbox.top <= Rect_bottom(game_screen_rect) + MaxOutside

\* Projectile.update; kill() takes the sprite out of every group it is in
Projectile_update ==
    /\ projectile.created
    /\ within_reach(projectile.rect)
    /\ LET x == speed_cos(projectile.movement_speed, projectile.movement_angle)
           y == 0 - speed_sin(projectile.movement_speed, projectile.movement_angle)
           moved == Rect_move(projectile.rect, x, y)
       IN projectile' = [projectile EXCEPT
                            !.rect = moved,
                            !.groups = IF out_of_bounds(moved, game_screen_rect)
                                       THEN {} ELSE @]
    /\ last_op' = "Projectile.update"
    /\ UNCHANGED <<projectile_error, projectile_request>>
    /\ UNCHANGED beside_projectile_vars

ProjectileInit ==
    /\ InitStrafer(CHOOSE height \in GruntHeights : TRUE, TRUE)
    /\ player__vertical_half = "bottom"
    /\ InitSpinner
    /\ IdlePlayer
    /\ IdleHealth
    /\ IdleApp
    /\ IdleRest
    /\ last_op = "init"

ProjectileNext ==
    \/ /\ ~projectile.created
       /\ \E cls \in ProjectileClasses :
          \E center_x \in 0..ScreenRectWidth, center_y \in 0..ScreenRectHeight,
             size \in ProjectileSizes, damage_is_none, speed_is_none \in BOOLEAN,
             speed \in ProjectileSpeeds, movement_angle \in MovementAngles,
             variant_number \in VariantNumbers(cls) :
              Projectile_init(cls, <<center_x, center_y>>, size, damage_is_none, speed,
                              speed_is_none, movement_angle, variant_number)
    \/ Projectile_update

SpecProjectile == ProjectileInit /\ [][ProjectileNext]_vars

\* the bounding box lies wholly past one side of the screen
EntirelyOutside(bbox) ==
    \/ bbox.left > game_screen_rect.left + game_screen_rect.width
    \/ bbox.left + bbox.width < game_screen_rect.left
    \/ bbox.top > game_screen_rect.top + game_screen_rect.height
    \/ bbox.top + bbox.height < game_screen_rect.top

\* C25: an update of a projectile that is in its groups takes it out of all of
\* them exactly when its moved bounding box lies wholly past one side of the
\* screen (a box that touches or overlaps the screen stays in every group), and
\* a projectile that is out of its groups is in none of them ever after.
C25_RemovedIffEntirelyOutside ==
    [][/\ (last_op' = "Projectile.update" /\ projectile.groups # {}) =>
             /\ EntirelyOutside(projectile'.rect) => projectile'.groups = {}
             /\ ~EntirelyOutside(projectile'.rect) =>
                    projectile'.groups = projectile.groups
       /\ (projectile.created /\ projectile.groups = {}) => projectile'.groups = {}]_vars

\* an update has moved a projectile past the right edge and so out of its groups
C25_Witness ==
    /\ last_op = "Projectile.update"
    /\ projectile.created
    /\ projectile.rect.left = game_screen_rect.left + game_screen_rect.width + 1
    /\ projectile.movement_speed = 1
    /\ projectile.groups = {}


\* the class and variant number last asked for are not an allowed configuration
InvalidRequest ==
    \/ /\ projectile_request.color # "None"
       /\ projectile_request.color \notin projectile_request.available_colors
    \/ projectile_request.variant_number \notin 0..(projectile_request.num_variants - 1)

\* C26: a construction whose class colour is not an available colour, or whose
\* variant number is negative or not below NUM_VARIANTS, ends in an error
\* raised by the constructor and leaves no projectile, so that every projectile
\* that exists was given an allowed colour and an allowed variant.
C26_InvalidConfigurationRejected ==
    (last_op = "Projectile.__init__" /\ InvalidRequest) =>
        /\ projectile_error # "none"
        /\ ~projectile.created


(***************************************************************************)
(* Weapon and Player.attack (player.py; the weapons module).               *)
(***************************************************************************)
\* the rate_of_fire of the player's weapons, in milliseconds
RatesOfFire == {100, 300}
\* the center_deltas of the player's weapons: two barrels, or the one default
CenterDeltas == {<<<<0, 0>>>>, <<<<0, 24>>, <<0, 0 - 24>>>>}
\* the ammo a weapon is created with
AmmoCounts == {INFINITE_AMMO} \cup (0..MaxAmmo)
\* the time between two readings of the clock
TimeSteps == {rate_of_fire \div 2 : rate_of_fire \in RatesOfFire}

\* the weapon fires whenever it is asked to
Weapon_can_fire_ungated(w, time) == w.num_ammo = INFINITE_AMMO \/ w.num_ammo > 0
\* the weapon fires: the interval has passed and ammo is left
Weapon_can_fire(w, time) ==
    /\ time - w.last_time_shot >= w.rate_of_fire
    /\ (w.num_ammo = INFINITE_AMMO \/ w.num_ammo > 0)
\* the ammo after a shot
ammo_after_shot(w) ==
    IF w.num_ammo = INFINITE_AMMO THEN w.num_ammo ELSE w.num_ammo - 1
\* the projectiles of one shot, one for each entry of center_deltas
shot_projectiles(w, projectile_center, time) ==
    {[center |-> <<projectile_center[1] + w.center_deltas[barrel][1],
                   projectile_center[2] + w.center_deltas[barrel][2]>>,
      fired_at |-> time] : barrel \in 1..Len(w.center_deltas)}
\* (self.rect.centerx, self.rect.centery)
attack_center == <<rect.x + (mask_size[0] \div 2), rect.y + (mask_size[1] \div 2)>>

\* Player.attack, with the Weapon.attack it calls
Player_attack(in_menu) ==
    /\ Len(attack_log) < MaxAttempts
    /\ LET fires == Weapon_can_fire(weapon, current_time)
           shot == shot_projectiles(weapon, attack_center, current_time)
       IN /\ weapon' = IF fires
                       THEN [weapon EXCEPT !.num_ammo = ammo_after_shot(weapon),
                                           !.last_time_shot = current_time]
                       ELSE weapon
          /\ player_projectiles' = IF fires THEN player_projectiles \cup shot
                                   ELSE player_projectiles
          /\ all_sprites_projectiles' = IF fires THEN all_sprites_projectiles \cup shot
                                        ELSE all_sprites_projectiles
          /\ attack_log' = Append(attack_log, [time |-> current_time,
                                               ammo |-> weapon.num_ammo,
                                               fired |-> fires])
    /\ player__frames__firing' = IF in_menu THEN player__frames__firing
                                 ELSE player__frames__firing + 1
    /\ last_op' = "Player.attack"
    /\ UNCHANGED <<current_time, weapon_given_ammo>>
    /\ UNCHANGED beside_weapon_vars

\* time passes between two frames
Clock_advance(ms) ==
    /\ current_time + ms <= MaxTime
    /\ current_time' = current_time + ms
    /\ last_op' = "get_ticks"
    /\ UNCHANGED <<weapon, player_projectiles, all_sprites_projectiles,
                   player__frames__firing, attack_log, weapon_given_ammo>>
    /\ UNCHANGED beside_weapon_vars

WeaponInit ==
    /\ InitStrafer(CHOOSE height \in GruntHeights : TRUE, TRUE)
    /\ player__vertical_half = "bottom"
    /\ InitSpinner
    /\ IdlePlayer
    /\ IdleHealth
    /\ IdleApp
    /\ InitTracker
    /\ InitProjectile
    /\ last_call = [start_time_ms |-> 0, player_max_health |-> 0, score |-> 0,
                    shots_fired |-> 0, health_lost |-> 0]
    /\ \E num_ammo \in AmmoCounts, rate_of_fire \in RatesOfFire,
          center_deltas \in CenterDeltas :
           InitWeapon(num_ammo, rate_of_fire, center_deltas)
    /\ last_op = "init"

WeaponNext ==
    \/ \E in_menu \in BOOLEAN : Player_attack(in_menu)
    \/ \E ms \in TimeSteps : Clock_advance(ms)

SpecWeapon == WeaponInit /\ [][WeaponNext]_vars

\* the attack of this step fired
Fired == player_projectiles' # player_projectiles
\* the attack of this step changed nothing of the weapon and its groups
NothingFired == UNCHANGED <<weapon, player_projectiles, all_sprites_projectiles>>
\* in the log, a shot at t, a second attempt at t + R/2 and a third at t + R
\* (made with ammo left when needs_ammo) give no shot at t + R/2 and one at t + R
ThreeAttemptsTwoShots(needs_ammo) ==
    \A i \in 1..Len(attack_log) :
        LET half == weapon.rate_of_fire \div 2 IN
        /\ (/\ attack_log[i].fired
            /\ i + 1 <= Len(attack_log)
            /\ attack_log[i + 1].time = attack_log[i].time + half)
               => ~attack_log[i + 1].fired
        /\ (/\ attack_log[i].fired
            /\ i + 2 <= Len(attack_log)
            /\ attack_log[i + 1].time = attack_log[i].time + half
            /\ attack_log[i + 2].time = attack_log[i].time + weapon.rate_of_fire
            /\ needs_ammo => (attack_log[i + 2].ammo = INFINITE_AMMO
                              \/ attack_log[i + 2].ammo > 0))
               => attack_log[i + 2].fired

\* C27 as stated: an attack fires if and only if the time since the last shot
\* is at least the rate of fire, and an attack that does not fire leaves the
\* last-shot time, the ammo and the projectile groups as they were.
C27_FiresIffIntervalElapsed ==
    [][last_op' = "Player.attack" =>
          /\ Fired <=> (current_time - weapon.last_time_shot >= weapon.rate_of_fire)
          /\ ~Fired => NothingFired]_vars

\* C27, amended: an attack fires if and only if the time since the last shot is
\* at least the rate of fire and the weapon has ammo left (always, for an
\* infinite-ammo weapon); attempts at t, t + R/2 and t + R, the last with ammo
\* left, fire at t and t + R only; an attack that does not fire leaves the
\* last-shot time, the ammo and the projectile groups as they were.
C27_FiresIffIntervalElapsedAndAmmoLeft ==
    [][last_op' = "Player.attack" =>
          /\ Fired <=> (/\ current_time - weapon.last_time_shot >= weapon.rate_of_fire
                        /\ (weapon.num_ammo = INFINITE_AMMO \/ weapon.num_ammo > 0))
          /\ ~Fired => NothingFired
          /\ ThreeAttemptsTwoShots(TRUE)']_vars

\* three attempts at t, t + R/2 and t + R have fired the first and the third
C27_Witness ==
    /\ Len(attack_log) = 3
    /\ attack_log[1].fired /\ ~attack_log[2].fired /\ attack_log[3].fired
    /\ attack_log[2].time = attack_log[1].time + (weapon.rate_of_fire \div 2)
    /\ attack_log[3].time = attack_log[1].time + weapon.rate_of_fire
    /\ weapon.last_time_shot = attack_log[3].time

\* C28: a weapon created with N >= 0 ammo has put at most N projectiles into
\* its group and its ammo is never below 0; the ammo of an infinite-ammo weapon
\* stays INFINITE_AMMO.
C28_AtMostAmmoProjectiles ==
    /\ weapon_given_ammo # INFINITE_AMMO =>
           /\ Cardinality(player_projectiles) <= weapon_given_ammo
           /\ weapon.num_ammo >= 0
    /\ weapon_given_ammo = INFINITE_AMMO => weapon.num_ammo = INFINITE_AMMO


(***************************************************************************)
(* Properties of StraferGruntGroup with set_row_limits                     *)
(***************************************************************************)
\* C29: with create_new_grunt called only while is_full is false, every entry
\* of top_grunts_per_row and of bottom_grunts_per_row is between 0 and
\* max_grunts_per_row, and each list has exactly max_rows entries.
C29_RowCountsWithinLimits ==
    caller_checks_is_full =>
        /\ \A row \in DOMAIN top_grunts_per_row :
               top_grunts_per_row[row] \in 0..max_grunts_per_row
        /\ \A row \in DOMAIN bottom_grunts_per_row :
               bottom_grunts_per_row[row] \in 0..max_grunts_per_row
        /\ DOMAIN top_grunts_per_row = 0..(max_rows - 1)
        /\ DOMAIN bottom_grunts_per_row = 0..(max_rows - 1)


(***************************************************************************)
(* Creation and removal of one strafer member                              *)
(***************************************************************************)
\* rows differs from rows_before in exactly the entry at row, by delta
OnlyRowChanged(rows_before, rows_after, row, delta) ==
    /\ DOMAIN rows_after = DOMAIN rows_before
    /\ row \in DOMAIN rows_before
    /\ rows_after[row] = rows_before[row] + delta
    /\ \A other \in DOMAIN rows_before : other # row => rows_after[other] = rows_before[other]
\* the step changes, by delta, exactly the count of the row set and row index
\* that the grunt records
OnlyCountOf(grunt, delta) ==
    IF grunt.spawn_direction = 1
    THEN /\ OnlyRowChanged(top_grunts_per_row, top_grunts_per_row', grunt.grunt_row, delta)
         /\ bottom_grunts_per_row' = bottom_grunts_per_row
    ELSE /\ OnlyRowChanged(bottom_grunts_per_row, bottom_grunts_per_row',
                           grunt.grunt_row, delta)
         /\ top_grunts_per_row' = top_grunts_per_row

\* C30: a creation increments exactly the count of the row set and row that
\* the new member records, and the removal of a member, in whichever half the
\* player then is and after whatever creations and removals, decrements
\* exactly the count its record names; a removal that directly follows the
\* member's creation leaves both row-count lists and both next-row pointers as
\* they were before the creation.
C30_RemoveUndoesCreate ==
    [][/\ last_op' = "create_new_grunt" =>
             /\ strafer_grunts' = strafer_grunts (+) SetToBag({before_create'.grunt})
             /\ OnlyCountOf(before_create'.grunt, 1)
       /\ last_op' = "remove" =>
             \E grunt \in BagToSet(strafer_grunts) :
                 /\ strafer_grunts' = strafer_grunts (-) SetToBag({grunt})
                 /\ OnlyCountOf(grunt, 0 - 1)
       /\ (/\ last_op = "create_new_grunt"
           /\ last_op' = "remove"
           /\ strafer_grunts' (+) SetToBag({before_create.grunt}) = strafer_grunts) =>
             /\ top_grunts_per_row' = before_create.top_grunts_per_row
             /\ bottom_grunts_per_row' = before_create.bottom_grunts_per_row
             /\ top_row_to_fill' = before_create.top_row_to_fill
             /\ bottom_row_to_fill' = before_create.bottom_row_to_fill]_vars

\* a member created while the player was in the bottom half has been removed
\* with the player in the top half, after a later creation, from a row other
\* than the one now being filled
C30_Witness ==
    /\ last_op = "remove"
    /\ player__vertical_half = "top"
    /\ before_create.grunt.spawn_direction = 0 - 1
    /\ top_grunts_per_row[0] = MAX_GRUNTS_PER_ROW - 1
    /\ top_grunts_per_row[1] = 1
    /\ top_row_to_fill = 0
    /\ bottom_grunts_per_row[0] = 1


\* C32: every update of a projectile that is in its groups and has a movement
\* speed of at least 1 changes the position of the projectile, whatever its
\* angle, so that the projectile comes to leave the screen and its groups.
C32_MovesOnEveryUpdate ==
    [][(/\ last_op' = "Projectile.update"
        /\ projectile.groups # {}
        /\ projectile.movement_speed >= 1) =>
           (projectile'.rect.left # projectile.rect.left
            \/ projectile'.rect.top # projectile.rect.top)]_vars


(***************************************************************************)
(* TimeStat (stats.py): the breakdown, also of negative times.             *)
(***************************************************************************)
\* TimeStat.__sub__ with a number: a time is taken off the
\* current-playthrough time
StatTracker_time_sub(other) ==
    /\ game__play_count > 0
    /\ game__time__current_playthrough.total_ms - other >= 0 - MaxNegativeMs
    /\ game__time__current_playthrough' =
           TimeStat(game__time__current_playthrough.total_ms - other)
    /\ last_op' = "TimeStat.__sub__"
    /\ UNCHANGED <<start_time, time_last_enemy_killed, control__game_init,
                   game__play_count, game__time__total_played, game__score,
                   player__position, player__curr_speed, player__angle,
                   player__rotation_amount, player__avg_shots_per_second,
                   player__accuracy, player__avg_time_between_kills, player__max_health,
                   player__near_misses, weapon__selected, weapon__total_shots_fired,
                   weapon__shots_per_weapon, enemies__num_on_screen, enemies__hit,
                   enemies__killed, last_call>>
    /\ UNCHANGED <<health_vars, beside_tracker_vars>>

TimeStatNext ==
    \/ \E start_time_ms \in Times, player_max_health \in PlayerMaxHealths :
           StatTracker_init_new_playthrough(start_time_ms, player_max_health)
    \/ \E total_time_elapsed_ms \in Times : StatTracker_set_game_time(total_time_elapsed_ms)
    \/ \E other \in Times \ {0} : StatTracker_time_sub(other)

SpecTimeStat == StatsInit /\ [][TimeStatNext]_vars

\* the parts of a TimeStat add up to its total and lie in their ranges
Breakdown(stat) ==
    /\ ((stat.hours * 60 + stat.minutes) * 60 + stat.seconds) * 1000 + stat.ms
           = stat.total_ms
    /\ stat.ms >= 0 /\ stat.ms < 1000
    /\ stat.seconds >= 0 /\ stat.seconds < 60
    /\ stat.minutes >= 0 /\ stat.minutes < 60

\* C33: the hours, minutes, seconds and ms of every TimeStat, negative ones
\* included, add up to its total_ms with ms in 0..999 and seconds and minutes
\* in 0..59, and set_game_time leaves the current-playthrough time at the total
\* elapsed time less the start time of the playthrough.
C33_BreakdownAddsUp ==
    /\ [](Breakdown(game__time__current_playthrough)
          /\ Breakdown(game__time__total_played))
    /\ [][last_op' = "set_game_time" =>
             game__time__current_playthrough'.total_ms
                 = game__time__total_played'.total_ms - start_time]_vars

\* a subtraction has left a negative current-playthrough time
C33_Witness ==
    /\ last_op = "TimeStat.__sub__"
    /\ game__time__current_playthrough.total_ms < 0
    /\ game__time__current_playthrough.hours < 0
    /\ game__time__current_playthrough.ms > 0
    /\ game__time__total_played.total_ms > start_time
    /\ start_time > 0

====
